---------------------------- MODULE Spec2Model ----------------------------
(***************************************************************************)
(* A model of the CLTune auto-tuner: the Tuner facade's set-up calls, the  *)
(* KernelInfo configuration-space model, the FullSearch and RandomSearch   *)
(* searchers and the TunerImpl::Tune loop.                                 *)
(*                                                                         *)
(* Conventions.  C++ vectors are sequences; a C++ 0-based index i reads    *)
(* element i+1 of the sequence.  A call that throws leaves its error       *)
(* message in the variable outcome; a call that returns leaves an empty    *)
(* message and the returned id (-1 for a void call).                       *)
(***************************************************************************)
EXTENDS Integers, Sequences, FiniteSets, Bags, TLC

VARIABLES
  kernels,          \* TunerImpl::kernels_ : vector<KernelInfo>
  outcome,          \* result of the last facade call: the returned id or the exception text
  enum_calls,       \* per kernel, the number of SetConfigurationList calls made on it
  search,           \* the Searcher object of the running search
  returned,         \* the configurations the searcher has returned so far, in order
  has_reference_,   \* TunerImpl::has_reference_
  search_method_,   \* TunerImpl::search_method_
  search_args_,     \* TunerImpl::search_args_
  tuning_results_,  \* TunerImpl::tuning_results_
  output_copy_,     \* what arguments_output_copy_ holds: "none", "match" or "differ"
  pc,               \* position of the caller inside Tune
  kernel_ix,        \* Tune: 0-based index of the kernel of the range-for loop
  p,                \* Tune: loop counter p of the configuration loop
  tune_runs,        \* number of Tune calls started
  stdout_,          \* what the last reporting call wrote to stdout and returned
  reference_kernel_,\* TunerImpl::reference_kernel_ : unique_ptr<KernelInfo>, <<>> when null
  run_log,          \* the RunKernel calls of the last Tune or ModelPrediction call, in order
  prediction        \* ModelPrediction: test_top_x_configurations and model_results

vars == <<kernels, outcome, enum_calls, search, returned, has_reference_,
          search_method_, search_args_, tuning_results_, output_copy_, pc,
          kernel_ix, p, tune_runs, stdout_, reference_kernel_, run_log,
          prediction>>

setup_vars == <<kernels, outcome>>
enum_vars == <<enum_calls>>
search_vars == <<search, returned>>
tune_vars == <<has_reference_, search_method_, search_args_, tuning_results_,
               output_copy_, pc, kernel_ix, p, tune_runs>>
report_vars == <<stdout_>>
run_vars == <<reference_kernel_, run_log>>
predict_vars == <<prediction>>

-----------------------------------------------------------------------------
(* Bounds of the model *)

MaxSetupCalls == 3
MaxModifiers == 1
MaxConstraints == 1
MaxParams == 2
MaxEnumCalls == 2

-----------------------------------------------------------------------------
(* Small input domains *)

KernelNames == {"matvec_reference", "matvec_unroll"}
ParamNames == {"TS1", "TS2"}
ValueLists == {<<8>>, <<8, 16>>}
GlobalBase == <<128, 512>>
LocalBase == <<8, 1>>

\* StringRange::StringRange: a dimension that is not given reads "1"
StringRange1(x) == <<x, "1", "1">>
StringRange2(x, y) == <<x, y, "1">>
StringRange3(x, y, z) == <<x, y, z>>
StringRanges == {StringRange2("TS1", "TS2")}


\* enum ConstraintType, enum OperatorType, enum ThreadSizeModifierType
ConstraintTypes == {"kEqual", "kLargerThan", "kLargerEqual", "kSmallerThan",
                    "kSmallerEqual", "kMultipleOf"}
OperatorTypes == {"kNoOp", "kMultipliedBy", "kDividedBy"}
ThreadSizeModifierTypes == {"kGlobalMul", "kGlobalDiv", "kLocalMul", "kLocalDiv"}

\* KernelInfo::AddConstraint with two parameters
Constraint2(p1, type, p2) ==
  [parameter_1 |-> p1, type |-> type, parameter_2 |-> p2,
   op_1 |-> "kNoOp", parameter_3 |-> "", op_2 |-> "kNoOp", parameter_4 |-> ""]

\* KernelInfo::AddConstraint with an operation on the second parameter
Constraint3(p1, type, p2, op, p3) ==
  [parameter_1 |-> p1, type |-> type, parameter_2 |-> p2,
   op_1 |-> op, parameter_3 |-> p3, op_2 |-> "kNoOp", parameter_4 |-> ""]

\* KernelInfo::AddConstraint with two operations on the second parameter
Constraint4(p1, type, p2, op_1, p3, op_2, p4) ==
  [parameter_1 |-> p1, type |-> type, parameter_2 |-> p2,
   op_1 |-> op_1, parameter_3 |-> p3, op_2 |-> op_2, parameter_4 |-> p4]

\* The parameter names a constraint refers to, in the order they were supplied
ConstraintParameters(c) ==
  <<c.parameter_1, c.parameter_2>>
    \o (IF c.op_1 # "kNoOp" THEN <<c.parameter_3>> ELSE <<>>)
    \o (IF c.op_1 # "kNoOp" /\ c.op_2 # "kNoOp" THEN <<c.parameter_4>> ELSE <<>>)

Range(s) == {s[i] : i \in 1..Len(s)}

-----------------------------------------------------------------------------
(* KernelInfo *)

\* KernelInfo::KernelInfo followed by set_global_base and set_local_base
NewKernelInfo(name, global, local) ==
  [name |-> name,
   parameters_ |-> <<>>,
   configuration_list_ |-> <<>>,
   constraints_ |-> <<>>,
   local_memory_ |-> <<>>,
   global_base_ |-> global, local_base_ |-> local,
   global_ |-> global, local_ |-> local,
   thread_size_modifiers_ |-> <<>>]

\* KernelInfo::AddParameter
KernelInfo_AddParameter(kernel, name, values) ==
  [kernel EXCEPT !.parameters_ = Append(@, [name |-> name, values |-> values])]

\* mutant: the loop never reports a match
ParameterExists_NoMatch(kernel, parameter_name) ==
  \E i \in 1..Len(kernel.parameters_) : FALSE

\* KernelInfo::ParameterExists
ParameterExists(kernel, parameter_name) ==
  \E i \in 1..Len(kernel.parameters_) : kernel.parameters_[i].name = parameter_name

\* KernelInfo::AddModifier
KernelInfo_AddModifier(kernel, range, type) ==
  [kernel EXCEPT !.thread_size_modifiers_ = Append(@, [value |-> range, type |-> type])]

\* KernelInfo::AddConstraint
KernelInfo_AddConstraint(kernel, constraint) ==
  [kernel EXCEPT !.constraints_ = Append(@, constraint)]

\* KernelInfo::SetLocalMemoryUsage: stores the estimator with its parameter names
KernelInfo_SetLocalMemoryUsage(kernel, parameters) ==
  [kernel EXCEPT !.local_memory_ = <<parameters>>]

-----------------------------------------------------------------------------
(* KernelInfo: the configuration list *)

\* the switch on constraint.op_1 / constraint.op_2 in ValidConfiguration
ApplyOperator(op, value_2, value) ==
  CASE op = "kMultipliedBy" -> value_2 * value
    [] op = "kDividedBy" -> value_2 \div value
    [] OTHER -> value_2

\* mutant: kSmallerEqual is checked as a strict comparison
ConstraintCheck_Strict(type, value_1, value_2) ==
  CASE type = "kEqual" -> value_1 = value_2
    [] type = "kLargerThan" -> value_1 > value_2
    [] type = "kLargerEqual" -> value_1 >= value_2
    [] type = "kSmallerThan" -> value_1 < value_2
    [] type = "kSmallerEqual" -> value_1 < value_2
    [] type = "kMultipleOf" -> (value_1 \div value_2) * value_2 = value_1

\* the switch on constraint.type in ValidConfiguration
ConstraintCheck(type, value_1, value_2) ==
  CASE type = "kEqual" -> value_1 = value_2
    [] type = "kLargerThan" -> value_1 > value_2
    [] type = "kLargerEqual" -> value_1 >= value_2
    [] type = "kSmallerThan" -> value_1 < value_2
    [] type = "kSmallerEqual" -> value_1 <= value_2
    [] type = "kMultipleOf" -> (value_1 \div value_2) * value_2 = value_1

\* positions of the settings of a configuration that carry a name
Matches(configuration, name) ==
  {i \in 1..Len(configuration) : configuration[i].name = name}

First(S) == CHOOSE i \in S : \A j \in S : i <= j

\* ValidConfiguration: value_2 after the optional operations with a third and
\* a fourth parameter (the first setting of that name, then "break")
SecondValue(constraint, configuration, value_2) ==
  IF constraint.op_1 # "kNoOp" /\ Matches(configuration, constraint.parameter_3) # {}
    THEN LET p3 == configuration[First(Matches(configuration, constraint.parameter_3))]
             v == ApplyOperator(constraint.op_1, value_2, p3.value)
         IN IF constraint.op_2 # "kNoOp" /\ Matches(configuration, constraint.parameter_4) # {}
              THEN ApplyOperator(constraint.op_2, v,
                     configuration[First(Matches(configuration, constraint.parameter_4))].value)
              ELSE v
    ELSE value_2

\* KernelInfo::ValidConfiguration
ValidConfiguration(kernel, configuration) ==
  \A c \in 1..Len(kernel.constraints_) :
    LET constraint == kernel.constraints_[c] IN
    \A p1 \in Matches(configuration, constraint.parameter_1) :
      \A p2 \in Matches(configuration, constraint.parameter_2) :
        ConstraintCheck(constraint.type, configuration[p1].value,
                        SecondValue(constraint, configuration, configuration[p2].value))

RECURSIVE PopulateConfigurations(_, _, _, _)
RECURSIVE PopulateValues(_, _, _, _, _)
RECURSIVE PopulateValues_SkipsLast(_, _, _, _, _)
RECURSIVE PopulateValues_Reversed(_, _, _, _, _)

\* KernelInfo::PopulateConfigurations: the configuration list after the call,
\* given the list before it
PopulateConfigurations(kernel, index, configuration, list) ==
  IF index = Len(kernel.parameters_)
    THEN IF ValidConfiguration(kernel, configuration)
           THEN Append(list, configuration)
           ELSE list
    ELSE PopulateValues(kernel, index, configuration, 1, list)

\* mutant: the loop over the values stops one value early
PopulateValues_SkipsLast(kernel, index, configuration, j, list) ==
  LET parameter == kernel.parameters_[index + 1] IN
  IF j >= Len(parameter.values)
    THEN list
    ELSE PopulateValues_SkipsLast(kernel, index, configuration, j + 1,
           PopulateConfigurations(kernel, index + 1,
             Append(configuration, [name |-> parameter.name, value |-> parameter.values[j]]),
             list))

\* mutant: the loop walks the values from the last to the first
PopulateValues_Reversed(kernel, index, configuration, j, list) ==
  LET parameter == kernel.parameters_[index + 1]
      n == Len(parameter.values) IN
  IF j > n
    THEN list
    ELSE PopulateValues_Reversed(kernel, index, configuration, j + 1,
           PopulateConfigurations(kernel, index + 1,
             Append(configuration, [name |-> parameter.name, value |-> parameter.values[n + 1 - j]]),
             list))

\* the loop "for (auto &value: parameter.values)" of PopulateConfigurations,
\* from the j-th value on
PopulateValues(kernel, index, configuration, j, list) ==
  LET parameter == kernel.parameters_[index + 1] IN
  IF j > Len(parameter.values)
    THEN list
    ELSE PopulateValues(kernel, index, configuration, j + 1,
           PopulateConfigurations(kernel, index + 1,
             Append(configuration, [name |-> parameter.name, value |-> parameter.values[j]]),
             list))

\* KernelInfo::SetConfigurationList on the kernel with 0-based id
SetConfigurationList(id) ==
  /\ id \in 0..(Len(kernels) - 1)
  /\ enum_calls[id + 1] < MaxEnumCalls
  /\ kernels' = [kernels EXCEPT ![id + 1].configuration_list_ =
                   PopulateConfigurations(kernels[id + 1], 0, <<>>, @)]
  /\ enum_calls' = [enum_calls EXCEPT ![id + 1] = @ + 1]
  /\ UNCHANGED <<report_vars, predict_vars, run_vars, outcome, search_vars, tune_vars>>

-----------------------------------------------------------------------------
(* KernelInfo: the thread sizes of a configuration *)

RECURSIVE ApplyModifier(_, _, _, _, _)
RECURSIVE ApplyModifiers(_, _, _, _, _)

\* ComputeRanges, lines 109-120: the loop over the settings of the
\* configuration for one modifier string; sizes is the pair of the global and
\* the local value of the dimension
ApplyModifier(modifier_string, type, configuration, k, sizes) ==
  IF k > Len(configuration) THEN sizes
  ELSE ApplyModifier(modifier_string, type, configuration, k + 1,
         IF modifier_string # configuration[k].name THEN sizes
         ELSE CASE type = "kGlobalMul" -> [sizes EXCEPT !.global = @ * configuration[k].value]
                [] type = "kGlobalDiv" -> [sizes EXCEPT !.global = @ \div configuration[k].value]
                [] type = "kLocalMul" -> [sizes EXCEPT !.local = @ * configuration[k].value]
                [] type = "kLocalDiv" -> [sizes EXCEPT !.local = @ \div configuration[k].value])

\* ComputeRanges, lines 104-126: the loop over the modifiers for one
\* dimension dim (0-based)
ApplyModifiers(kernel, configuration, dim, m, sizes) ==
  IF m > Len(kernel.thread_size_modifiers_) THEN sizes
  ELSE LET modifier == kernel.thread_size_modifiers_[m] IN
       ApplyModifiers(kernel, configuration, dim, m + 1,
         ApplyModifier(modifier.value[dim + 1], modifier.type, configuration, 1, sizes))

\* a variant that also reports an empty string
UnresolvedModifiers_EmptyToo(kernel, configuration) ==
  {dm \in (0..(Len(kernel.global_base_) - 1)) \X (1..Len(kernel.thread_size_modifiers_)) :
     LET modifier_string == kernel.thread_size_modifiers_[dm[2]].value[dm[1] + 1] IN
     Matches(configuration, modifier_string) = {}}

\* the (dimension, modifier) pairs whose string is neither empty nor the name
\* of a setting of the configuration
UnresolvedModifiers(kernel, configuration) ==
  {dm \in (0..(Len(kernel.global_base_) - 1)) \X (1..Len(kernel.thread_size_modifiers_)) :
     LET modifier_string == kernel.thread_size_modifiers_[dm[2]].value[dm[1] + 1] IN
     modifier_string # "" /\ Matches(configuration, modifier_string) = {}}

\* the first of them in the order of the loops
FirstUnresolved(kernel, configuration) ==
  CHOOSE dm \in UnresolvedModifiers(kernel, configuration) :
    \A other \in UnresolvedModifiers(kernel, configuration) :
      dm[1] < other[1] \/ (dm[1] = other[1] /\ dm[2] <= other[2])

\* a variant that starts from the sizes stored by the previous call
ComputeRanges_FromStored(kernel, configuration) ==
  LET num_dimensions == Len(kernel.global_base_)
      sizes(dim) == ApplyModifiers(kernel, configuration, dim, 1,
                      [global |-> kernel.global_[dim + 1],
                       local |-> kernel.local_[dim + 1]])
  IN IF num_dimensions # Len(kernel.local_base_)
       THEN [error |-> "Mismatching number of global/local dimensions", kernel |-> kernel]
     ELSE IF UnresolvedModifiers(kernel, configuration) # {}
       THEN LET dm == FirstUnresolved(kernel, configuration) IN
            [error |-> "Invalid modifier: " \o kernel.thread_size_modifiers_[dm[2]].value[dm[1] + 1],
             kernel |-> kernel]
     ELSE [error |-> "",
           kernel |-> [kernel EXCEPT
                         !.global_ = [d \in 1..num_dimensions |-> sizes(d - 1).global],
                         !.local_ = [d \in 1..num_dimensions |-> sizes(d - 1).local]]]

\* KernelInfo::ComputeRanges: the exception text ("" when it returns) and the
\* kernel after the call
ComputeRanges(kernel, configuration) ==
  LET num_dimensions == Len(kernel.global_base_)
      sizes(dim) == ApplyModifiers(kernel, configuration, dim, 1,
                      [global |-> kernel.global_base_[dim + 1],
                       local |-> kernel.local_base_[dim + 1]])
  IN IF num_dimensions # Len(kernel.local_base_)
       THEN [error |-> "Mismatching number of global/local dimensions", kernel |-> kernel]
     ELSE IF UnresolvedModifiers(kernel, configuration) # {}
       THEN LET dm == FirstUnresolved(kernel, configuration) IN
            [error |-> "Invalid modifier: " \o kernel.thread_size_modifiers_[dm[2]].value[dm[1] + 1],
             kernel |-> kernel]
     ELSE [error |-> "",
           kernel |-> [kernel EXCEPT
                         !.global_ = [d \in 1..num_dimensions |-> sizes(d - 1).global],
                         !.local_ = [d \in 1..num_dimensions |-> sizes(d - 1).local]]]

-----------------------------------------------------------------------------
(* The Tuner facade: set-up calls *)

\* number of set-up calls that changed a kernel so far (bounds the model only)
SetupSize ==
  LET Size(k) == 1 + Len(k.parameters_) + Len(k.thread_size_modifiers_)
                   + Len(k.constraints_) + Len(k.local_memory_)
      Sum[i \in 0..Len(kernels)] == IF i = 0 THEN 0 ELSE Sum[i - 1] + Size(kernels[i])
  IN Sum[Len(kernels)]

\* mutant: the guard is off by one and rejects the last valid id
InvalidKernelID_OffByOne(id) == id >= Len(kernels) - 1

\* the guard "if (id >= pimpl_->kernels_.size()) throw" of every per-kernel call
InvalidKernelID(id) == id >= Len(kernels)

\* what a call leaves in outcome: it returned (with an id, or -1 for void) or it threw
Returned(id) == [error |-> "", id |-> id]
Thrown(message) == [error |-> message, id |-> -1]

Throw(message) ==
  /\ outcome' = Thrown(message)
  /\ UNCHANGED kernels

\* mutant: the id is taken before the kernel is counted, without the "- 1"
AddKernel_ReturnsSize(file_ok, kernel_name) ==
  /\ pc = "idle"
  /\ IF ~file_ok
       THEN Throw("Could not open kernel file")
       ELSE /\ SetupSize < MaxSetupCalls
            /\ kernels' = Append(kernels, NewKernelInfo(kernel_name, GlobalBase, LocalBase))
            /\ outcome' = Returned(Len(kernels'))
  /\ enum_calls' = IF file_ok THEN Append(enum_calls, 0) ELSE enum_calls
  /\ UNCHANGED <<report_vars, predict_vars, run_vars, search_vars, tune_vars>>

\* Tuner::AddKernel (file_ok: whether LoadFile can open every file)
AddKernel(file_ok, kernel_name) ==
  /\ pc = "idle"
  /\ IF ~file_ok
       THEN Throw("Could not open kernel file")
       ELSE /\ SetupSize < MaxSetupCalls
            /\ kernels' = Append(kernels, NewKernelInfo(kernel_name, GlobalBase, LocalBase))
            /\ outcome' = Returned(Len(kernels') - 1)
  /\ enum_calls' = IF file_ok THEN Append(enum_calls, 0) ELSE enum_calls
  /\ UNCHANGED <<report_vars, predict_vars, run_vars, search_vars, tune_vars>>

\* Tuner::AddParameter
AddParameter(id, parameter_name, values) ==
  /\ pc = "idle"
  /\ IF InvalidKernelID(id)
       THEN Throw("Invalid kernel ID")
       ELSE IF ParameterExists(kernels[id + 1], parameter_name)
         THEN Throw("Parameter already exists")
         ELSE /\ SetupSize < MaxSetupCalls
              /\ kernels' = [kernels EXCEPT ![id + 1] =
                               KernelInfo_AddParameter(@, parameter_name, values)]
              /\ outcome' = Returned(-1)
  /\ UNCHANGED <<report_vars, predict_vars, run_vars, enum_vars, search_vars, tune_vars>>

\* shared body of Tuner::MulGlobalSize, DivGlobalSize, MulLocalSize, DivLocalSize
AddModifier(id, range, type) ==
  /\ pc = "idle"
  /\ IF InvalidKernelID(id)
       THEN Throw("Invalid kernel ID")
       ELSE /\ SetupSize < MaxSetupCalls
            /\ Len(kernels[id + 1].thread_size_modifiers_) < MaxModifiers
            /\ kernels' = [kernels EXCEPT ![id + 1] = KernelInfo_AddModifier(@, range, type)]
            /\ outcome' = Returned(-1)
  /\ UNCHANGED <<report_vars, predict_vars, run_vars, enum_vars, search_vars, tune_vars>>

\* Tuner::MulGlobalSize
MulGlobalSize(id, range) == AddModifier(id, range, "kGlobalMul")

\* Tuner::DivGlobalSize
DivGlobalSize(id, range) == AddModifier(id, range, "kGlobalDiv")

\* Tuner::MulLocalSize
MulLocalSize(id, range) == AddModifier(id, range, "kLocalMul")

\* Tuner::DivLocalSize
DivLocalSize(id, range) == AddModifier(id, range, "kLocalDiv")

\* mutant: only the first of the names is looked up
AllParametersExist_FirstOnly(kernel, parameters) ==
  parameters = <<>> \/ ParameterExists(kernel, parameters[1])

\* the loop "for (auto &parameter: parameters) if (!ParameterExists(parameter)) throw"
AllParametersExist(kernel, parameters) ==
  \A i \in 1..Len(parameters) : ParameterExists(kernel, parameters[i])

\* Tuner::AddConstraint
AddConstraint(id, constraint) ==
  /\ pc = "idle"
  /\ IF InvalidKernelID(id)
       THEN Throw("Invalid kernel ID")
       ELSE IF ~AllParametersExist(kernels[id + 1], ConstraintParameters(constraint))
         THEN Throw("Invalid parameter")
         ELSE /\ SetupSize < MaxSetupCalls
              /\ Len(kernels[id + 1].constraints_) < MaxConstraints
              /\ kernels' = [kernels EXCEPT ![id + 1] = KernelInfo_AddConstraint(@, constraint)]
              /\ outcome' = Returned(-1)
  /\ UNCHANGED <<report_vars, predict_vars, run_vars, enum_vars, search_vars, tune_vars>>

\* Tuner::SetLocalMemoryUsage
SetLocalMemoryUsage(id, parameters) ==
  /\ pc = "idle"
  /\ IF InvalidKernelID(id)
       THEN Throw("Invalid kernel ID")
       ELSE IF ~AllParametersExist(kernels[id + 1], parameters)
         THEN Throw("Invalid parameter")
         ELSE /\ kernels[id + 1].local_memory_ = <<>> => SetupSize < MaxSetupCalls
              /\ kernels' = [kernels EXCEPT ![id + 1] = KernelInfo_SetLocalMemoryUsage(@, parameters)]
              /\ outcome' = Returned(-1)
  /\ UNCHANGED <<report_vars, predict_vars, run_vars, enum_vars, search_vars, tune_vars>>

-----------------------------------------------------------------------------
(* Initial state: the Tuner after construction (TunerImpl::TunerImpl) *)

NoSearch == [kind |-> "none", configurations_ |-> <<>>, execution_times_ |-> <<>>,
             explored_indices_ |-> <<>>, index_ |-> 0, i |-> 0,
             fraction_ |-> [num |-> 1, den |-> 1]]

\* no ModelPrediction call has been made
NoPrediction == [test_top_x_configurations |-> 0, model_results |-> <<>>]

\* nothing has been written to stdout yet
NoOutput == [call |-> "", headers |-> <<>>, results |-> <<>>, best |-> <<>>,
             database |-> <<>>, returned |-> 0, crashed |-> FALSE]

InitTuner ==
  /\ kernels = <<>>
  /\ outcome = Returned(-1)
  /\ enum_calls = <<>>
  /\ search = NoSearch
  /\ returned = <<>>
  /\ has_reference_ = FALSE
  /\ search_method_ = "FullSearch"
  /\ search_args_ = <<>>
  /\ tuning_results_ = <<>>
  /\ output_copy_ = "none"
  /\ pc = "idle"
  /\ kernel_ix = 0
  /\ p = 0
  /\ tune_runs = 0
  /\ stdout_ = NoOutput
  /\ reference_kernel_ = <<>>
  /\ run_log = <<>>
  /\ prediction = NoPrediction

-----------------------------------------------------------------------------
(* Specification of the set-up phase *)

\* kernel ids a caller may pass: every valid id and the first invalid one
KernelIds == 0..Len(kernels)

\* constraints a caller may declare
SetupConstraints ==
  {Constraint2("TS2", "kSmallerEqual", "TS1"),
   Constraint3("TS1", "kMultipleOf", "TS2", "kDividedBy", "TS1")}

\* parameter-name vectors a caller may pass to SetLocalMemoryUsage
SetupNameLists == {<<>>, <<"TS1">>, <<"TS1", "TS2">>}

SetupNext ==
  \/ \E file_ok \in BOOLEAN, kernel_name \in KernelNames : AddKernel(file_ok, kernel_name)
  \/ \E id \in KernelIds, name \in ParamNames, values \in ValueLists :
        AddParameter(id, name, values)
  \/ \E id \in KernelIds, range \in StringRanges : MulGlobalSize(id, range)
  \/ \E id \in KernelIds, range \in StringRanges : DivGlobalSize(id, range)
  \/ \E id \in KernelIds, range \in StringRanges : MulLocalSize(id, range)
  \/ \E id \in KernelIds, range \in StringRanges : DivLocalSize(id, range)
  \/ \E id \in KernelIds, constraint \in SetupConstraints : AddConstraint(id, constraint)
  \/ \E id \in KernelIds, parameters \in SetupNameLists : SetLocalMemoryUsage(id, parameters)

SpecSetup == InitTuner /\ [][SetupNext]_vars

-----------------------------------------------------------------------------
(* Specification of the enumeration: a kernel as the set-up calls can leave  *)
(* it (distinct parameter names, constraints over declared parameters),     *)
(* then SetConfigurationList.  Values are positive, as tuning parameters    *)
(* are; a zero divisor in a constraint is outside the model.                *)

EnumParamNames == {"TS1", "TS2", "WPT"}
EnumValueLists == {<<8, 16>>, <<16, 8>>, <<2>>, <<4, 4, 2>>}
EnumConstraints ==
  {Constraint2("TS2", "kSmallerEqual", "TS1"),
   Constraint2("TS1", "kLargerThan", "TS1"),
   Constraint2("TS1", "kEqual", "TS1"),
   Constraint2("TS1", "kMultipleOf", "TS2"),
   Constraint3("TS2", "kLargerEqual", "TS1", "kDividedBy", "TS2"),
   Constraint3("TS1", "kMultipleOf", "TS2", "kMultipliedBy", "WPT"),
   Constraint4("TS1", "kSmallerThan", "TS2", "kMultipliedBy", "TS2", "kDividedBy", "TS1")}

\* sequences of at most n elements of S
SeqUpTo(S, n) == UNION {[1..m -> S] : m \in 0..n}

EnumParameterLists ==
  {ps \in SeqUpTo([name : EnumParamNames, values : EnumValueLists], MaxParams) :
     \A i, j \in 1..Len(ps) : ps[i].name = ps[j].name => i = j}

EnumKernels ==
  {[NewKernelInfo("matvec_unroll", GlobalBase, LocalBase)
      EXCEPT !.parameters_ = ps, !.constraints_ = cs] :
     ps \in EnumParameterLists, cs \in SeqUpTo(EnumConstraints, MaxConstraints)}

EnumInit ==
  /\ kernels \in {<<k>> : k \in {e \in EnumKernels :
                      \A c \in 1..Len(e.constraints_) :
                        AllParametersExist(e, ConstraintParameters(e.constraints_[c]))}}
  /\ outcome = Returned(-1)
  /\ enum_calls = <<0>>
  /\ search = NoSearch
  /\ returned = <<>>
  /\ has_reference_ = FALSE
  /\ search_method_ = "FullSearch"
  /\ search_args_ = <<>>
  /\ tuning_results_ = <<>>
  /\ output_copy_ = "none"
  /\ pc = "idle"
  /\ kernel_ix = 0
  /\ p = 0
  /\ tune_runs = 0
  /\ stdout_ = NoOutput
  /\ reference_kernel_ = <<>>
  /\ run_log = <<>>
  /\ prediction = NoPrediction

EnumNext == \E id \in 0..(Len(kernels) - 1) : SetConfigurationList(id)

SpecEnum == EnumInit /\ [][EnumNext]_vars

-----------------------------------------------------------------------------
(* The searchers *)

\* std::numeric_limits<double>::max(), the initial entry of execution_times_
kMaxDouble == 2000

\* a fraction of the configurations to try, num/den
Fraction(num, den) == [num |-> num, den |-> den]

\* what a read of vector element [k] (0-based) gives; a read past the end
\* gives no element of the vector
Garbage == <<[name |-> "?", value |-> 0]>>
At(vector, k) == IF k \in 0..(Len(vector) - 1) THEN vector[k + 1] ELSE Garbage

\* Searcher::Searcher
Searcher(kind, configurations) ==
  [kind |-> kind,
   configurations_ |-> configurations,
   execution_times_ |-> [c \in 1..Len(configurations) |-> kMaxDouble],
   explored_indices_ |-> <<>>,
   index_ |-> 0,
   i |-> 0,
   fraction_ |-> Fraction(1, 1)]

\* Searcher::PushExecutionTime
PushExecutionTime(s, execution_time) ==
  [s EXCEPT !.explored_indices_ = Append(@, s.index_),
            !.execution_times_ = [c \in 1..Len(@) |->
                                    IF c = s.index_ + 1 THEN execution_time ELSE @[c]]]

\* the value the cursor i of FullSearch has after construction
FullSearch_InitialCursor == 0

\* FullSearch::FullSearch
FullSearch(configurations) ==
  [Searcher("FullSearch", configurations) EXCEPT !.i = FullSearch_InitialCursor]

\* mutant: the configuration after the cursor is returned
FullSearch_NextConfiguration_Skips(s) ==
  [search |-> [s EXCEPT !.i = @ + 1], configuration |-> At(s.configurations_, s.i + 1)]

\* FullSearch::NextConfiguration: the searcher after the call and the
\* configuration returned ("++i; return configurations_[i-1];")
FullSearch_NextConfiguration(s) ==
  [search |-> [s EXCEPT !.i = @ + 1], configuration |-> At(s.configurations_, (s.i + 1) - 1)]

\* FullSearch::NumConfigurations
FullSearch_NumConfigurations(s) == Len(s.configurations_)

\* the orders std::random_shuffle can leave a vector in
Shuffles(vector) ==
  {[c \in 1..Len(vector) |-> vector[f[c]]] : f \in Permutations(1..Len(vector))}

\* RandomSearch::RandomSearch, for one outcome of the shuffle
RandomSearch(shuffled, fraction) ==
  [Searcher("RandomSearch", shuffled) EXCEPT !.fraction_ = fraction]

\* RandomSearch::GetConfiguration
RandomSearch_GetConfiguration(s) == At(s.configurations_, s.index_)

\* mutant: the index is not advanced
RandomSearch_CalculateNextIndex_Stays(s) == [s EXCEPT !.index_ = @]

\* RandomSearch::CalculateNextIndex
RandomSearch_CalculateNextIndex(s) == [s EXCEPT !.index_ = @ + 1]

\* RandomSearch::NumConfigurations: size()*fraction_ converted to size_t
RandomSearch_NumConfigurations(s) ==
  (Len(s.configurations_) * s.fraction_.num) \div s.fraction_.den

\* Searcher::NumConfigurations of the search at hand
NumConfigurations(s) ==
  IF s.kind = "RandomSearch" THEN RandomSearch_NumConfigurations(s)
  ELSE FullSearch_NumConfigurations(s)

\* the configuration a searcher hands out for one iteration
GetConfiguration(s) ==
  IF s.kind = "RandomSearch" THEN RandomSearch_GetConfiguration(s)
  ELSE FullSearch_NextConfiguration(s).configuration

\* the searcher after one iteration that measured execution_time:
\* PushExecutionTime, then the move to the next configuration
AfterIteration(s, execution_time) ==
  IF s.kind = "RandomSearch"
    THEN RandomSearch_CalculateNextIndex(PushExecutionTime(s, execution_time))
    ELSE PushExecutionTime(FullSearch_NextConfiguration(s).search, execution_time)

\* the index the searcher reads in this iteration
ReadIndex(s) == IF s.kind = "RandomSearch" THEN s.index_ ELSE s.i

\* one iteration of a run of the searcher: "for (p = 0; p < NumConfigurations(); ++p)"
SearchStep(execution_time) ==
  /\ pc = "search"
  /\ p < NumConfigurations(search)
  /\ returned' = Append(returned, [index |-> ReadIndex(search),
                                     configuration |-> GetConfiguration(search)])
  /\ search' = AfterIteration(search, execution_time)
  /\ p' = p + 1
  /\ UNCHANGED <<report_vars, predict_vars, run_vars, setup_vars, enum_vars, has_reference_,
                 search_method_,
                 search_args_,
                 tuning_results_, output_copy_, pc, kernel_ix, tune_runs>>

FullSearchStep(execution_time) == search.kind = "FullSearch" /\ SearchStep(execution_time)
RandomSearchStep(execution_time) == search.kind = "RandomSearch" /\ SearchStep(execution_time)

-----------------------------------------------------------------------------
(* Specification of a search run: a searcher constructed over a             *)
(* configuration list, then the iterations of the run                       *)

MaxListLen == 3

SearchConfigurations ==
  {<<[name |-> "TS1", value |-> v]>> : v \in {8, 16, 32}}
SearchLists == SeqUpTo(SearchConfigurations, MaxListLen)
SearchFractions ==
  {Fraction(0, 1), Fraction(1, 4), Fraction(1, 2), Fraction(3, 4), Fraction(1, 1)}
ExecutionTimes == {1, 2}

SearchInit ==
  /\ \E list \in SearchLists :
       /\ kernels = <<[NewKernelInfo("matvec_unroll", GlobalBase, LocalBase)
                        EXCEPT !.parameters_ = <<[name |-> "TS1", values |-> <<8, 16, 32>>]>>,
                               !.configuration_list_ = list]>>
       /\ \/ search = FullSearch(list)
          \/ \E shuffled \in Shuffles(list), fraction \in SearchFractions :
               search = RandomSearch(shuffled, fraction)
  /\ outcome = Returned(-1)
  /\ enum_calls = <<1>>
  /\ returned = <<>>
  /\ has_reference_ = FALSE
  /\ search_method_ = search.kind
  /\ search_args_ = <<>>
  /\ tuning_results_ = <<>>
  /\ output_copy_ = "none"
  /\ pc = "search"
  /\ kernel_ix = 0
  /\ p = 0
  /\ tune_runs = 0
  /\ stdout_ = NoOutput
  /\ reference_kernel_ = <<>>
  /\ run_log = <<>>
  /\ prediction = NoPrediction

SearchNext ==
  \E execution_time \in ExecutionTimes :
    \/ FullSearchStep(execution_time)
    \/ RandomSearchStep(execution_time)

SpecSearch == SearchInit /\ [][SearchNext]_vars

-----------------------------------------------------------------------------
(* TunerImpl: Tune *)

\* std::numeric_limits<float>::max(), the time of a failed run
kMaxFloat == 1000

MaxTuneRuns == 1
MaxResults == 2
MaxSearchArgs == 1

\* the measured time of a completed run; FullSearch and RandomSearch only
\* store it, and Tune only compares it with the float maximum
RunTimes == {1}

\* what a kernel run can do: fail before the output buffers are copied (the
\* compiler), fail after it (arguments, local memory, launch), or complete in
\* some time; copy tells how the output then compares with the reference
RunOutcomes ==
  {[kind |-> "compile_error", time |-> 0, copy |-> "match"]}
  \cup [kind : {"launch_error"}, time : {0}, copy : {"match", "differ"}]
  \cup [kind : {"ok"}, time : RunTimes, copy : {"match", "differ"}]

\* the product of the local thread sizes
RECURSIVE LocalThreads(_)
LocalThreads(local) == IF local = <<>> THEN 1 ELSE Head(local) * LocalThreads(Tail(local))

\* TunerImpl::RunKernel: the TunerResult returned
RunKernel(kernel, run) ==
  IF run.kind = "ok"
    THEN [kernel_name |-> kernel.name, time |-> run.time,
          threads |-> LocalThreads(kernel.local_), status |-> FALSE, configuration |-> <<>>]
    ELSE [kernel_name |-> kernel.name, time |-> kMaxFloat,
          threads |-> 0, status |-> FALSE, configuration |-> <<>>]

\* TunerImpl::RunKernel: arguments_output_copy_ after the call; a run that
\* fails in the compiler leaves the copies of the run before it.  Without a
\* reference there is nothing to differ from.
RunKernel_OutputCopy(run, copy) ==
  IF run.kind = "compile_error" THEN copy
  ELSE IF has_reference_ THEN run.copy ELSE "match"

\* TunerImpl::VerifyOutput
VerifyOutput(copy) == has_reference_ => copy \in {"none", "match"}

\* Tuner::SetReference: the flag is set first, then the file is loaded, which
\* throws when it cannot be opened, then the reference kernel is created
SetReference(file_ok) ==
  /\ pc = "idle"
  /\ reference_kernel_ = <<>>
  /\ has_reference_' = TRUE
  /\ IF file_ok
       THEN /\ reference_kernel_' = <<NewKernelInfo("matvec_reference", <<128>>, <<128>>)>>
            /\ outcome' = Returned(-1)
       ELSE /\ reference_kernel_' = reference_kernel_
            /\ outcome' = Thrown("Could not open kernel file")
  /\ UNCHANGED <<report_vars, predict_vars, run_log, kernels, enum_vars, search_vars,
                 search_method_,
                 search_args_, tuning_results_, output_copy_, pc, kernel_ix, p, tune_runs>>

\* Tuner::UseFullSearch
UseFullSearch ==
  /\ pc = "idle"
  /\ search_method_' = "FullSearch"
  /\ UNCHANGED <<report_vars, predict_vars, run_vars, setup_vars, enum_vars, search_vars,
                 has_reference_,
                 search_args_,
                 tuning_results_, output_copy_, pc, kernel_ix, p, tune_runs>>

\* Tuner::UseRandomSearch
UseRandomSearch(fraction) ==
  /\ pc = "idle"
  /\ Len(search_args_) < MaxSearchArgs
  /\ search_method_' = "RandomSearch"
  /\ search_args_' = Append(search_args_, fraction)
  /\ UNCHANGED <<report_vars, predict_vars, run_vars, setup_vars, enum_vars, search_vars,
                 has_reference_,
                 tuning_results_, output_copy_, pc, kernel_ix, p, tune_runs>>

\* what RunKernel was called with, and what VerifyOutput then said (TRUE
\* for the reference run, after which VerifyOutput is not called)
RunKernelCall(kernel, defines, reference, verified) ==
  [kernel_name |-> kernel.name, defines |-> defines, global |-> kernel.global_,
   local |-> kernel.local_, reference |-> reference, verified |-> verified]

\* mutant: Tune starts with the kernels, the reference is not run
Tune_Begin_NoReference(run) ==
  /\ pc = "idle"
  /\ tune_runs < MaxTuneRuns
  /\ has_reference_ => reference_kernel_ # <<>>
  /\ tune_runs' = tune_runs + 1
  /\ run_log' = <<>>
  /\ pc' = "kernel"
  /\ kernel_ix' = 0
  /\ UNCHANGED <<report_vars, predict_vars, reference_kernel_, setup_vars, enum_vars,
                 search_vars,
                 has_reference_, search_method_, search_args_, tuning_results_, output_copy_, p>>

\* Tune, lines 148-152: the reference run and StoreReferenceOutput, after
\* which the stored reference is what the output copies hold
Tune_Begin(run) ==
  /\ pc = "idle"
  /\ tune_runs < MaxTuneRuns
  /\ has_reference_ => reference_kernel_ # <<>>
  /\ tune_runs' = tune_runs + 1
  /\ output_copy_' = IF has_reference_
                       THEN IF RunKernel_OutputCopy(run, output_copy_) = "none"
                              THEN "none" ELSE "match"
                       ELSE output_copy_
  /\ run_log' = IF has_reference_
                  THEN <<RunKernelCall(reference_kernel_[1], <<>>, TRUE, TRUE)>>
                  ELSE <<>>
  /\ pc' = "kernel"
  /\ kernel_ix' = 0
  /\ UNCHANGED <<report_vars, predict_vars, reference_kernel_, setup_vars, enum_vars,
                 search_vars,
                 has_reference_, search_method_, search_args_, tuning_results_, p>>

\* Tune, line 149: has_reference_ is set but SetReference threw before it
\* created the kernel; reference_kernel_->name() reads through a null pointer
Tune_NullReference ==
  /\ pc = "idle"
  /\ tune_runs < MaxTuneRuns
  /\ has_reference_ /\ reference_kernel_ = <<>>
  /\ tune_runs' = tune_runs + 1
  /\ run_log' = <<>>
  /\ pc' = "crashed"
  /\ UNCHANGED <<report_vars, predict_vars, reference_kernel_, setup_vars, enum_vars,
                 search_vars,
                 has_reference_, search_method_, search_args_, tuning_results_, output_copy_,
                 kernel_ix, p>>

\* mutant: the kernel without parameters is run and stored a second time
Tune_RunKernel_Twice(run) ==
  /\ pc = "kernel"
  /\ kernel_ix < Len(kernels)
  /\ Len(kernels[kernel_ix + 1].parameters_) = 0
  /\ Len(tuning_results_) < MaxResults
  /\ output_copy_' = RunKernel_OutputCopy(run, output_copy_)
  /\ LET tuning_result == [RunKernel(kernels[kernel_ix + 1], run)
                             EXCEPT !.status = VerifyOutput(output_copy_')]
         call == RunKernelCall(kernels[kernel_ix + 1], <<>>, FALSE, VerifyOutput(output_copy_'))
     IN /\ tuning_results_' = tuning_results_ \o <<tuning_result, tuning_result>>
        /\ run_log' = run_log \o <<call, call>>
  /\ kernel_ix' = kernel_ix + 1
  /\ UNCHANGED <<report_vars, predict_vars, reference_kernel_, setup_vars, enum_vars,
                 search_vars,
                 has_reference_, search_method_, search_args_, pc, p, tune_runs>>

\* Tune, lines 159-166: a kernel without tuning parameters is run once
Tune_RunKernel(run) ==
  /\ pc = "kernel"
  /\ kernel_ix < Len(kernels)
  /\ Len(kernels[kernel_ix + 1].parameters_) = 0
  /\ Len(tuning_results_) < MaxResults
  /\ output_copy_' = RunKernel_OutputCopy(run, output_copy_)
  /\ tuning_results_' = Append(tuning_results_,
                           [RunKernel(kernels[kernel_ix + 1], run)
                              EXCEPT !.status = VerifyOutput(output_copy_')])
  /\ run_log' = Append(run_log, RunKernelCall(kernels[kernel_ix + 1], <<>>, FALSE,
                                              VerifyOutput(output_copy_')))
  /\ kernel_ix' = kernel_ix + 1
  /\ UNCHANGED <<report_vars, predict_vars, reference_kernel_, setup_vars, enum_vars,
                 search_vars,
                 has_reference_, search_method_, search_args_, pc, p, tune_runs>>

\* Tune, lines 175-197: the configurations are computed and the searcher of
\* the selected method is created over them
Tune_CreateSearch ==
  /\ pc = "kernel"
  /\ kernel_ix < Len(kernels)
  /\ Len(kernels[kernel_ix + 1].parameters_) # 0
  /\ kernels' = [kernels EXCEPT ![kernel_ix + 1].configuration_list_ =
                   PopulateConfigurations(kernels[kernel_ix + 1], 0, <<>>, @)]
  /\ enum_calls' = [enum_calls EXCEPT ![kernel_ix + 1] = @ + 1]
  /\ IF search_method_ = "RandomSearch"
       THEN \E shuffled \in Shuffles(kernels'[kernel_ix + 1].configuration_list_) :
              search' = RandomSearch(shuffled, search_args_[1])
       ELSE search' = FullSearch(kernels'[kernel_ix + 1].configuration_list_)
  /\ returned' = <<>>
  /\ p' = 0
  /\ pc' = "loop"
  /\ UNCHANGED <<report_vars, predict_vars, run_vars, outcome, has_reference_, search_method_,
                 search_args_,
                 tuning_results_,
                 output_copy_, kernel_ix, tune_runs>>

\* Tune, lines 224-232: the status of the result that is stored
FinalStatus(tuning_result) ==
  IF tuning_result.time = kMaxFloat THEN FALSE ELSE tuning_result.status

\* mutant: the result is stored without its configuration
Tune_Result_NoConfiguration(run, permutation, copy) ==
  LET tuning_result == [RunKernel(ComputeRanges(kernels[kernel_ix + 1], permutation).kernel, run)
                          EXCEPT !.status = VerifyOutput(copy)]
  IN [tuning_result EXCEPT !.status = FinalStatus(tuning_result)]

\* mutant: a result whose output differs from the reference is stored as a
\* failed run
Tune_Result_MismatchFails(run, permutation, copy) ==
  LET tuning_result == [RunKernel(ComputeRanges(kernels[kernel_ix + 1], permutation).kernel, run)
                          EXCEPT !.status = VerifyOutput(copy),
                                 !.configuration = permutation]
  IN IF tuning_result.status THEN tuning_result
     ELSE [tuning_result EXCEPT !.time = kMaxFloat]

\* Tune, lines 215-229: the result of one iteration
Tune_Result(run, permutation, copy) ==
  LET tuning_result == [RunKernel(ComputeRanges(kernels[kernel_ix + 1], permutation).kernel, run)
                          EXCEPT !.status = VerifyOutput(copy),
                                 !.configuration = permutation]
  IN [tuning_result EXCEPT !.status = FinalStatus(tuning_result)]

\* Tune, lines 197-234: one iteration of the configuration loop
Tune_Iteration(run) ==
  /\ pc = "loop"
  /\ p < NumConfigurations(search)
  /\ Len(tuning_results_) < MaxResults
  /\ LET permutation == GetConfiguration(search)
         ranges == ComputeRanges(kernels[kernel_ix + 1], permutation)
         tuning_result == Tune_Result(run, permutation, output_copy_')
     IN /\ ranges.error = ""
        /\ kernels' = [kernels EXCEPT ![kernel_ix + 1] = ranges.kernel]
        /\ output_copy_' = RunKernel_OutputCopy(run, output_copy_)
        /\ returned' = Append(returned, [index |-> ReadIndex(search),
                                          configuration |-> permutation])
        /\ search' = AfterIteration(search, tuning_result.time)
        /\ tuning_results_' = Append(tuning_results_, tuning_result)
        /\ run_log' = Append(run_log, RunKernelCall(ranges.kernel, permutation, FALSE,
                                                    VerifyOutput(output_copy_')))
  /\ p' = p + 1
  /\ UNCHANGED <<report_vars, predict_vars, reference_kernel_, outcome, enum_vars,
                 has_reference_,
                 search_method_, search_args_,
                 pc, kernel_ix, tune_runs>>

\* Tune, lines 202-212: ComputeRanges throws; nothing in Tune catches the
\* exception, so Tune ends with it
Tune_Throws ==
  /\ pc = "loop"
  /\ p < NumConfigurations(search)
  /\ LET permutation == GetConfiguration(search)
         ranges == ComputeRanges(kernels[kernel_ix + 1], permutation)
     IN /\ ranges.error # ""
        /\ outcome' = Thrown(ranges.error)
        /\ returned' = Append(returned, [index |-> ReadIndex(search),
                                          configuration |-> permutation])
  /\ search' = NoSearch
  /\ pc' = "idle"
  /\ UNCHANGED <<report_vars, predict_vars, run_vars, kernels, enum_vars, has_reference_,
                 search_method_,
                 search_args_,
                 tuning_results_, output_copy_, kernel_ix, p, tune_runs>>

\* Tune: the configuration loop ends, the kernel loop goes on
Tune_NextKernel ==
  /\ pc = "loop"
  /\ ~(p < NumConfigurations(search))
  /\ pc' = "kernel"
  /\ kernel_ix' = kernel_ix + 1
  /\ UNCHANGED <<report_vars, predict_vars, run_vars, setup_vars, enum_vars, search_vars,
                 has_reference_,
                 search_method_,
                 search_args_, tuning_results_, output_copy_, p, tune_runs>>

\* Tune: the kernel loop ends, Tune returns
Tune_Return ==
  /\ pc = "kernel"
  /\ kernel_ix = Len(kernels)
  /\ pc' = "idle"
  /\ UNCHANGED <<report_vars, predict_vars, run_vars, setup_vars, enum_vars, search_vars,
                 has_reference_,
                 search_method_,
                 search_args_, tuning_results_, output_copy_, kernel_ix, p, tune_runs>>

-----------------------------------------------------------------------------
(* Specification of tuning: kernels as the set-up calls can leave them, a    *)
(* choice of search method and reference, then Tune                         *)

TuneKernelLists ==
  LET plain == NewKernelInfo("matvec_reference", <<128>>, <<8>>)
      tuned == NewKernelInfo("matvec_unroll", GlobalBase, LocalBase)
      TS1 == [name |-> "TS1", values |-> <<8, 16>>]
      TS2 == [name |-> "TS2", values |-> <<8, 16>>]
      one == [NewKernelInfo("matvec_tiled", <<128>>, <<1>>) EXCEPT
                !.parameters_ = <<TS1>>,
                !.thread_size_modifiers_ =
                   <<[value |-> StringRange1("TS1"), type |-> "kLocalMul"]>>]
      two == [tuned EXCEPT
                !.parameters_ = <<TS1, TS2>>,
                !.constraints_ = <<Constraint2("TS2", "kSmallerEqual", "TS1")>>,
                !.thread_size_modifiers_ =
                   <<[value |-> StringRange2("TS1", "TS2"), type |-> "kGlobalDiv"]>>]
      \* a one-dimensional modifier on a two-dimensional kernel
      flat == [tuned EXCEPT
                 !.parameters_ = <<TS1>>,
                 !.thread_size_modifiers_ =
                    <<[value |-> StringRange1("TS1"), type |-> "kLocalMul"]>>]
  IN {<<plain>>, <<one>>, <<two>>, <<flat>>, <<plain, one>>, <<one, plain>>, <<plain, plain>>}

TuneFractions == {Fraction(1, 2), Fraction(1, 1)}

TuneInit ==
  /\ kernels \in TuneKernelLists
  /\ outcome = Returned(-1)
  /\ enum_calls = [k \in 1..Len(kernels) |-> 0]
  /\ search = NoSearch
  /\ returned = <<>>
  /\ has_reference_ = FALSE
  /\ search_method_ = "FullSearch"
  /\ search_args_ = <<>>
  /\ tuning_results_ = <<>>
  /\ output_copy_ = "none"
  /\ pc = "idle"
  /\ kernel_ix = 0
  /\ p = 0
  /\ tune_runs = 0
  /\ stdout_ = NoOutput
  /\ reference_kernel_ = <<>>
  /\ run_log = <<>>
  /\ prediction = NoPrediction

TuneNext ==
  \/ \E file_ok \in BOOLEAN : SetReference(file_ok)
  \/ UseFullSearch
  \/ \E fraction \in TuneFractions : UseRandomSearch(fraction)
  \/ \E run \in RunOutcomes : Tune_Begin(run)
  \/ Tune_NullReference
  \/ \E run \in RunOutcomes : Tune_RunKernel(run)
  \/ Tune_CreateSearch
  \/ \E run \in RunOutcomes : Tune_Iteration(run)
  \/ Tune_Throws
  \/ Tune_NextKernel
  \/ Tune_Return

SpecTune == TuneInit /\ [][TuneNext]_vars

-----------------------------------------------------------------------------
(* Tuner: reporting.  PrintToScreen and PrintFormatted read tuning_results_ *)
(* and write to stdout; stdout_ holds what the last call wrote: the headers, *)
(* the results printed as valid, the result printed as best, the line in    *)
(* database format, and the value returned.                                 *)

MaxReportResults == 3

\* the results Tune and ModelPrediction can leave in tuning_results_
ReportResults ==
  [kernel_name : {"matvec_tiled"}, time : ExecutionTimes \cup {kMaxFloat}, threads : {8},
   status : BOOLEAN,
   configuration : {<<>>, <<[name |-> "TS1", value |-> 8]>>, <<[name |-> "TS1", value |-> 16]>>}]

\* "auto best_result = tuning_results_[0]": reading the first element of an
\* empty vector is undefined; the read crashes or yields some object
GarbageResults ==
  {[kernel_name |-> "", time |-> 0, threads |-> 0, status |-> FALSE, configuration |-> <<>>],
   [kernel_name |-> "matvec_tiled", time |-> 1, threads |-> 8, status |-> TRUE,
    configuration |-> <<[name |-> "TS1", value |-> 8]>>]}

FirstResult(results) == IF results = <<>> THEN GarbageResults ELSE {results[1]}

\* mutant: a later result replaces the best one only when it is strictly faster
RECURSIVE FindBest_Strict(_, _, _)
FindBest_Strict(results, k, best) ==
  IF k > Len(results) THEN best
  ELSE FindBest_Strict(results, k + 1,
         IF results[k].status /\ best.best_time > results[k].time
           THEN [best_result |-> results[k], best_time |-> results[k].time]
           ELSE best)

\* PrintToScreen and PrintFormatted, "Finds the best result": the loop over
\* tuning_results_ from its k-th element on
RECURSIVE FindBest(_, _, _)
FindBest(results, k, best) ==
  IF k > Len(results) THEN best
  ELSE FindBest(results, k + 1,
         IF results[k].status /\ best.best_time >= results[k].time
           THEN [best_result |-> results[k], best_time |-> results[k].time]
           ELSE best)

\* the results with status true, in the order of the list
RECURSIVE ValidResults(_)
ValidResults(results) ==
  IF results = <<>> THEN <<>>
  ELSE IF Head(results).status THEN <<Head(results)>> \o ValidResults(Tail(results))
  ELSE ValidResults(Tail(results))

\* a call that crashed reading tuning_results_[0]
Crashed(call) == [NoOutput EXCEPT !.call = call, !.crashed = TRUE]

\* Tuner::PrintToScreen: what it writes and returns, first being what the
\* read of tuning_results_[0] gave
PrintToScreen_Output(first) ==
  LET best == FindBest(tuning_results_, 1, [best_result |-> first, best_time |-> kMaxDouble])
  IN IF best.best_time = kMaxDouble
       THEN [call |-> "PrintToScreen", headers |-> <<"No tuner results found">>,
             results |-> <<>>, best |-> <<>>, database |-> <<>>, returned |-> 0,
             crashed |-> FALSE]
       ELSE [call |-> "PrintToScreen",
             headers |-> <<"Printing results to stdout", "Printing best result to stdout">>,
             results |-> ValidResults(tuning_results_),
             best |-> <<best.best_result>>,
             database |-> <<>>, returned |-> best.best_time, crashed |-> FALSE]

\* Tuner::PrintFormatted: what it writes, first as above
PrintFormatted_Output(first) ==
  LET best == FindBest(tuning_results_, 1, [best_result |-> first, best_time |-> kMaxDouble])
  IN [call |-> "PrintFormatted",
      headers |-> <<"Printing best result in database format to stdout">>,
      results |-> <<>>, best |-> <<>>,
      database |-> <<best.best_result.configuration>>, returned |-> 0, crashed |-> FALSE]

\* Tuner::PrintToScreen
PrintToScreen ==
  /\ pc = "idle"
  /\ \/ \E first \in FirstResult(tuning_results_) : stdout_' = PrintToScreen_Output(first)
     \/ tuning_results_ = <<>> /\ stdout_' = Crashed("PrintToScreen")
  /\ UNCHANGED <<predict_vars, run_vars, setup_vars, enum_vars, search_vars, tune_vars>>

\* Tuner::PrintFormatted
PrintFormatted ==
  /\ pc = "idle"
  /\ \/ \E first \in FirstResult(tuning_results_) : stdout_' = PrintFormatted_Output(first)
     \/ tuning_results_ = <<>> /\ stdout_' = Crashed("PrintFormatted")
  /\ UNCHANGED <<predict_vars, run_vars, setup_vars, enum_vars, search_vars, tune_vars>>

\* the tuner after any number of Tune and ModelPrediction calls: some list
\* of results, nothing running
ReportInit ==
  /\ kernels = <<>>
  /\ outcome = Returned(-1)
  /\ enum_calls = <<>>
  /\ search = NoSearch
  /\ returned = <<>>
  /\ has_reference_ \in BOOLEAN
  /\ search_method_ = "FullSearch"
  /\ search_args_ = <<>>
  /\ tuning_results_ \in SeqUpTo(ReportResults, MaxReportResults)
  /\ output_copy_ = "none"
  /\ pc = "idle"
  /\ kernel_ix = 0
  /\ p = 0
  /\ tune_runs = 0
  /\ stdout_ = NoOutput
  /\ reference_kernel_ = <<>>
  /\ run_log = <<>>
  /\ prediction = NoPrediction

ReportNext ==
  \/ PrintToScreen
  \/ PrintFormatted

SpecReport == ReportInit /\ [][ReportNext]_vars

-----------------------------------------------------------------------------
(* TunerImpl: ModelPrediction.  The trained model is a black box here: it    *)
(* may predict any time for any configuration.                              *)

MaxPredictResults == 3

\* the times the model may predict, and the values of test_top_x_configurations
PredictedTimes == {1, 2}
TestTopX == 0..2

\* ModelPrediction is entered; only the loop over kernels_ follows
ModelPrediction_Begin(test_top_x_configurations) ==
  /\ pc = "idle"
  /\ Len(tuning_results_) < MaxPredictResults
  /\ prediction' = [test_top_x_configurations |-> test_top_x_configurations,
                    model_results |-> <<>>]
  /\ run_log' = <<>>
  /\ kernel_ix' = 0
  /\ pc' = "model"
  /\ UNCHANGED <<report_vars, reference_kernel_, setup_vars, enum_vars, search_vars,
                 has_reference_, search_method_, search_args_, tuning_results_, output_copy_,
                 p, tune_runs>>

\* ModelPrediction, lines 506-595: the model is trained on tuning_results_,
\* predicts a time for every configuration of the kernel, and the tuples
\* <<p, predicted_time>> are sorted by predicted time (std::sort leaves tuples
\* of equal time in any order)
ModelPrediction_Train ==
  /\ pc = "model"
  /\ kernel_ix < Len(kernels)
  /\ tuning_results_ # <<>>
  /\ LET size == Len(kernels[kernel_ix + 1].configuration_list_)
     IN \E predicted_time \in [1..size -> PredictedTimes], sorted \in Permutations(1..size) :
          /\ \A i, j \in 1..size :
               i < j => predicted_time[sorted[i]] <= predicted_time[sorted[j]]
          /\ prediction' = [prediction EXCEPT !.model_results =
                              [i \in 1..size |-> <<sorted[i] - 1, predicted_time[sorted[i]]>>]]
  /\ p' = 0
  /\ pc' = "test"
  /\ UNCHANGED <<report_vars, run_vars, setup_vars, enum_vars, search_vars, has_reference_,
                 search_method_, search_args_, tuning_results_, output_copy_, kernel_ix,
                 tune_runs>>

\* ModelPrediction, lines 600-603: permutations[pid] of the i-th best prediction
ModelPrediction_Permutation(kernel, i) ==
  At(kernel.configuration_list_, prediction.model_results[i + 1][1])

\* ModelPrediction, lines 599-628: one of the best-predicted configurations
\* is run on the device and its result stored; ComputeRanges may throw, which
\* ends the call
ModelPrediction_Test(run) ==
  /\ pc = "test"
  /\ p < prediction.test_top_x_configurations
  /\ p < Len(prediction.model_results)
  /\ LET permutation == ModelPrediction_Permutation(kernels[kernel_ix + 1], p)
         ranges == ComputeRanges(kernels[kernel_ix + 1], permutation)
         tuning_result == [RunKernel(ranges.kernel, run)
                             EXCEPT !.status = VerifyOutput(output_copy_'),
                                    !.configuration = permutation]
     IN IF ranges.error # ""
          THEN /\ outcome' = Thrown(ranges.error)
               /\ pc' = "idle"
               /\ UNCHANGED <<kernels, output_copy_, tuning_results_, run_log, p>>
          ELSE /\ kernels' = [kernels EXCEPT ![kernel_ix + 1] = ranges.kernel]
               /\ output_copy_' = RunKernel_OutputCopy(run, output_copy_)
               /\ tuning_results_' = Append(tuning_results_, tuning_result)
               /\ run_log' = Append(run_log, RunKernelCall(ranges.kernel, permutation, FALSE,
                                                           VerifyOutput(output_copy_')))
               /\ p' = p + 1
               /\ UNCHANGED <<outcome, pc>>
  /\ UNCHANGED <<report_vars, predict_vars, reference_kernel_, enum_vars, search_vars,
                 has_reference_, search_method_, search_args_, kernel_ix, tune_runs>>

\* ModelPrediction: the test loop ends, the kernel loop goes on
ModelPrediction_NextKernel ==
  /\ pc = "test"
  /\ ~(p < prediction.test_top_x_configurations /\ p < Len(prediction.model_results))
  /\ kernel_ix' = kernel_ix + 1
  /\ pc' = "model"
  /\ UNCHANGED <<report_vars, predict_vars, run_vars, setup_vars, enum_vars, search_vars,
                 has_reference_, search_method_, search_args_, tuning_results_, output_copy_,
                 p, tune_runs>>

\* ModelPrediction: the kernel loop ends, the call returns
ModelPrediction_Return ==
  /\ pc = "model"
  /\ kernel_ix = Len(kernels)
  /\ pc' = "idle"
  /\ UNCHANGED <<report_vars, predict_vars, run_vars, setup_vars, enum_vars, search_vars,
                 has_reference_, search_method_, search_args_, tuning_results_, output_copy_,
                 kernel_ix, p, tune_runs>>

\* the tuner after a Tune over one kernel with parameters: its configurations
\* are computed, a search has explored some of them (any non-empty sequence
\* of different configurations: all of them in order for FullSearch, the
\* start of a shuffle for RandomSearch) and stored one result for each
PredictInit ==
  /\ \E list \in TuneKernelLists :
       /\ Len(list) = 1
       /\ list[1].parameters_ # <<>>
       /\ LET configurations == PopulateConfigurations(list[1], 0, <<>>, <<>>)
          IN /\ \A k \in 1..Len(configurations) :
                  ComputeRanges(list[1], configurations[k]).error = ""
             /\ \E explored \in SeqUpTo(1..Len(configurations), Len(configurations)) :
                  /\ explored # <<>>
                  /\ \A i, j \in 1..Len(explored) : explored[i] = explored[j] => i = j
                  /\ LET configured(k) == ComputeRanges(list[1], configurations[k]).kernel
                         last == configured(explored[Len(explored)])
                     IN /\ kernels = <<[last EXCEPT !.configuration_list_ = configurations]>>
                        /\ tuning_results_ =
                             [i \in 1..Len(explored) |->
                                [RunKernel(configured(explored[i]),
                                           [kind |-> "ok", time |-> 1, copy |-> "match"])
                                   EXCEPT !.status = TRUE,
                                          !.configuration = configurations[explored[i]]]]
  /\ outcome = Returned(-1)
  /\ enum_calls = <<1>>
  /\ search = NoSearch
  /\ returned = <<>>
  /\ has_reference_ = FALSE
  /\ search_method_ = "FullSearch"
  /\ search_args_ = <<>>
  /\ output_copy_ = "match"
  /\ pc = "idle"
  /\ kernel_ix = 1
  /\ p = 0
  /\ tune_runs = 1
  /\ stdout_ = NoOutput
  /\ reference_kernel_ = <<>>
  /\ run_log = <<>>
  /\ prediction = NoPrediction

PredictNext ==
  \/ \E test_top_x_configurations \in TestTopX :
       ModelPrediction_Begin(test_top_x_configurations)
  \/ ModelPrediction_Train
  \/ \E run \in RunOutcomes : ModelPrediction_Test(run)
  \/ ModelPrediction_NextKernel
  \/ ModelPrediction_Return

SpecPredict == PredictInit /\ [][PredictNext]_vars

-----------------------------------------------------------------------------
(* Searchers: PSO (particle swarm optimisation) *)

MaxPSOSteps == 2

\* PSO::PSO; positions are the values drawn for particle_positions_ from
\* int_distribution_(0, configurations_.size()), both ends included
PSO(configurations, parameters, fraction, swarm_size, influences, positions) ==
  [kind |-> "PSO",
   fraction_ |-> fraction,
   index_ |-> positions[1],
   swarm_size_ |-> swarm_size,
   influence_global_ |-> influences[1],
   influence_local_ |-> influences[2],
   influence_random_ |-> influences[3],
   particle_index_ |-> 0,
   particle_positions_ |-> positions,
   global_best_time_ |-> kMaxDouble,
   local_best_times_ |-> [k \in 1..swarm_size |-> kMaxDouble],
   global_best_config_ |-> <<>>,
   local_best_configs_ |-> [k \in 1..swarm_size |-> <<>>],
   parameters_ |-> parameters] @@ Searcher("PSO", configurations)

\* PSO::GetConfiguration, and every other read of configurations_[index_]; a
\* read past the end of the vector yields, when it does not crash, an object
\* that is no configuration of the list
PSO_GetConfiguration(s) ==
  IF s.index_ < Len(s.configurations_)
    THEN s.configurations_[s.index_ + 1]
    ELSE [k \in 1..Len(s.parameters_) |-> [name |-> s.parameters_[k].name, value |-> 0]]

\* mutant: a time equal to the best one also replaces the best configuration
PSO_PushExecutionTime_NotStrict(s, execution_time) ==
  LET particle == s.particle_index_ + 1
      pushed == PushExecutionTime(s, execution_time)
      local == IF execution_time <= s.local_best_times_[particle]
                 THEN [pushed EXCEPT !.local_best_times_[particle] = execution_time,
                                     !.local_best_configs_[particle] = PSO_GetConfiguration(s)]
                 ELSE pushed
  IN IF execution_time <= s.global_best_time_
       THEN [local EXCEPT !.global_best_time_ = execution_time,
                          !.global_best_config_ = PSO_GetConfiguration(s)]
       ELSE local

\* PSO::PushExecutionTime
PSO_PushExecutionTime(s, execution_time) ==
  LET particle == s.particle_index_ + 1
      pushed == PushExecutionTime(s, execution_time)
      local == IF execution_time < s.local_best_times_[particle]
                 THEN [pushed EXCEPT !.local_best_times_[particle] = execution_time,
                                     !.local_best_configs_[particle] = PSO_GetConfiguration(s)]
                 ELSE pushed
  IN IF execution_time < s.global_best_time_
       THEN [local EXCEPT !.global_best_time_ = execution_time,
                          !.global_best_config_ = PSO_GetConfiguration(s)]
       ELSE local

\* PSO::IndexFromConfiguration: the index of the first configuration with
\* the values of target, the size of the list when there is none
PSO_IndexFromConfiguration(s, target) ==
  LET matches == {c \in 1..Len(s.configurations_) :
                    \A k \in 1..Len(s.configurations_[c]) :
                      s.configurations_[c][k].value = target[k].value}
  IN IF matches = {} THEN Len(s.configurations_)
     ELSE (CHOOSE c \in matches : \A d \in matches : c <= d) - 1

\* a probability drawn from [0, 1) can be at most the influence when the
\* influence is positive, and can be above it when the influence is below 1
CanTake(influence) == influence.num > 0
CanSkip(influence) == influence.num < influence.den

\* PSO::CalculateNextIndex, lines 85-97: the branches one dimension can take
\* with the three probabilities drawn
PSO_Moves(s) ==
  (IF CanTake(s.influence_global_) THEN {"global"} ELSE {}) \cup
  (IF CanSkip(s.influence_global_) /\ CanTake(s.influence_local_) THEN {"local"} ELSE {}) \cup
  (IF /\ CanSkip(s.influence_global_) /\ CanSkip(s.influence_local_)
      /\ CanTake(s.influence_random_) THEN {"random"} ELSE {}) \cup
  (IF /\ CanSkip(s.influence_global_) /\ CanSkip(s.influence_local_)
      /\ CanSkip(s.influence_random_) THEN {"stay"} ELSE {})

\* PSO::CalculateNextIndex, lines 80-98: next_configuration after one pass of
\* the do-while loop in which dimension k took the branch moves[k] and, for a
\* random move, drew draws[k]; a read of element [k] past the end of a vector
\* gives garbage
PSO_NextConfiguration(s, moves, draws, garbage) ==
  LET current == PSO_GetConfiguration(s)
      Read(values, k) == IF k < Len(values) THEN values[k + 1] ELSE garbage
      settings(config) == [j \in 1..Len(config) |-> config[j].value]
  IN [k \in 1..Len(current) |->
       [name |-> current[k].name,
        value |-> CASE moves[k] = "global" -> Read(settings(s.global_best_config_), k - 1)
                    [] moves[k] = "local" ->
                         Read(settings(s.local_best_configs_[s.particle_index_ + 1]), k - 1)
                    [] moves[k] = "random" -> Read(s.parameters_[k].values, draws[k])
                    [] OTHER -> current[k].value]]

\* PSO::CalculateNextIndex, with the index new_index the loop ended with
PSO_CalculateNextIndex(s, new_index) ==
  LET positions == [s.particle_positions_ EXCEPT ![s.particle_index_ + 1] = new_index]
      particle_index == IF s.particle_index_ + 1 = s.swarm_size_ THEN 0
                        ELSE s.particle_index_ + 1
  IN [s EXCEPT !.particle_positions_ = positions,
               !.particle_index_ = particle_index,
               !.index_ = positions[particle_index + 1]]

\* an iteration of Tune's loop up to the call of PushExecutionTime, with the
\* time of the run of the configuration GetConfiguration returned; returned
\* logs the cursor, the configuration read at it, the time pushed and the
\* particle whose turn it was
PSO_Push(execution_time) ==
  /\ pc = "search"
  /\ search.kind = "PSO"
  /\ Len(search.explored_indices_) < MaxPSOSteps
  /\ search' = PSO_PushExecutionTime(search, execution_time)
  /\ returned' = Append(returned, [index |-> search.index_,
                                     configuration |-> PSO_GetConfiguration(search),
                                     time |-> execution_time,
                                     particle |-> search.particle_index_])
  /\ pc' = "next"
  /\ UNCHANGED <<report_vars, predict_vars, run_vars, setup_vars, enum_vars,
                 has_reference_, search_method_, search_args_, tuning_results_, output_copy_,
                 kernel_ix, p, tune_runs>>

\* PSO::CalculateNextIndex, line 94: the numbers the distributions of the
\* random moves can draw, both ends included, one for every dimension
PSO_Draws(s) ==
  LET Draws(k) == 0..Len(s.parameters_[k].values)
  IN {draws \in [1..Len(s.parameters_) -> UNION {Draws(k) : k \in 1..Len(s.parameters_)}] :
        \A k \in 1..Len(s.parameters_) : draws[k] \in Draws(k)}

\* the reads of one pass of the loop that are outside the vector read: the
\* vector and the position (0-based) of the dimension
PSO_ReadsOutside(s, moves, draws) ==
  {[vector |-> "values", i |-> k - 1] :
     k \in {j \in 1..Len(s.parameters_) :
              moves[j] = "random" /\ draws[j] >= Len(s.parameters_[j].values)}} \cup
  {[vector |-> "global_best_config_", i |-> k - 1] :
     k \in {j \in 1..Len(s.parameters_) :
              moves[j] = "global" /\ j > Len(s.global_best_config_)}} \cup
  {[vector |-> "local_best_configs_", i |-> k - 1] :
     k \in {j \in 1..Len(s.parameters_) :
              moves[j] = "local" /\ j > Len(s.local_best_configs_[s.particle_index_ + 1])}}

\* one pass of the do-while loop of the CalculateNextIndex call that follows
\* PushExecutionTime in Tune's loop: with an index of the list the call goes
\* on to the next particle and returns, otherwise the loop goes round again.
\* run_log keeps the particle and the reads of the pass outside a vector
PSO_Next(moves, draws, garbage) ==
  /\ pc = "next"
  /\ search.kind = "PSO"
  /\ moves \in [1..Len(search.parameters_) -> PSO_Moves(search)]
  /\ draws \in PSO_Draws(search)
  /\ \A k \in 1..Len(search.parameters_) : moves[k] # "random" => draws[k] = 0
  /\ PSO_ReadsOutside(search, moves, draws) = {} => garbage = 0
  /\ LET new_index == PSO_IndexFromConfiguration(search,
                        PSO_NextConfiguration(search, moves, draws, garbage))
     IN IF new_index >= Len(search.configurations_)
          THEN UNCHANGED <<search, pc>>
          ELSE /\ search' = PSO_CalculateNextIndex(search, new_index)
               /\ pc' = "search"
  /\ run_log' = <<[particle |-> search.particle_index_,
                    reads_outside |-> PSO_ReadsOutside(search, moves, draws)]>>
  /\ UNCHANGED <<report_vars, predict_vars, reference_kernel_, setup_vars, enum_vars,
                 returned, has_reference_, search_method_, search_args_, tuning_results_,
                 output_copy_, kernel_ix, p, tune_runs>>

\* a read outside a vector ends the program instead of yielding a value:
\* configurations_[index_] with the cursor at the end of the list, or
\* parameters_[i].values[...] with the number drawn for a random move
PSO_Crash ==
  /\ pc \in {"search", "next"}
  /\ search.kind = "PSO"
  /\ \/ search.index_ >= Len(search.configurations_)
     \/ /\ pc = "next"
        /\ CanSkip(search.influence_global_) /\ CanSkip(search.influence_local_)
        /\ CanTake(search.influence_random_)
  /\ pc' = "crashed"
  /\ UNCHANGED <<report_vars, predict_vars, run_vars, setup_vars, enum_vars, search_vars,
                 has_reference_, search_method_, search_args_, tuning_results_, output_copy_,
                 kernel_ix, p, tune_runs>>

\* a PSO searcher as Tune constructs it over the configurations of a kernel
PSOInit ==
  /\ \E list \in TuneKernelLists :
       /\ Len(list) = 1
       /\ list[1].parameters_ # <<>>
       /\ \E swarm_size \in 1..2,
             influences \in {<<Fraction(1, 2), Fraction(1, 2), Fraction(1, 2)>>,
                             <<Fraction(1, 1), Fraction(0, 1), Fraction(0, 1)>>,
                             <<Fraction(0, 1), Fraction(0, 1), Fraction(1, 1)>>} :
            LET configurations == PopulateConfigurations(list[1], 0, <<>>, <<>>)
            IN /\ kernels = <<[list[1] EXCEPT !.configuration_list_ = configurations]>>
               /\ \E positions \in [1..swarm_size -> 0..Len(configurations)] :
                    search = PSO(configurations, list[1].parameters_, Fraction(1, 1),
                                 swarm_size, influences, positions)
  /\ outcome = Returned(-1)
  /\ enum_calls = <<1>>
  /\ returned = <<>>
  /\ has_reference_ = FALSE
  /\ search_method_ = "PSO"
  /\ search_args_ = <<>>
  /\ tuning_results_ = <<>>
  /\ output_copy_ = "none"
  /\ pc = "search"
  /\ kernel_ix = 0
  /\ p = 0
  /\ tune_runs = 1
  /\ stdout_ = NoOutput
  /\ reference_kernel_ = <<>>
  /\ run_log = <<>>
  /\ prediction = NoPrediction

PSONext ==
  \/ \E execution_time \in ExecutionTimes : PSO_Push(execution_time)
  \/ /\ pc = "next"
     /\ \E moves \in [1..Len(search.parameters_) -> PSO_Moves(search)],
           draws \in PSO_Draws(search),
           garbage \in {0, 8} : PSO_Next(moves, draws, garbage)
  \/ PSO_Crash

SpecPSO == PSOInit /\ [][PSONext]_vars

-----------------------------------------------------------------------------
(* Simulated annealing (src/src/searchers/annealing.cc)                     *)

\* Annealing::Annealing
Annealing(configurations, fraction, max_temperature) ==
  [fraction_ |-> fraction,
   max_temperature_ |-> max_temperature,
   num_visited_states_ |-> 0,
   current_state_ |-> 0,
   neighbour_state_ |-> 0,
   num_already_visisted_states_ |-> 0] @@ Searcher("Annealing", configurations)

\* a variant that also accepts a configuration with no difference
Annealing_GetNeighboursOf_AtMostOne(s, reference_id) ==
  LET differences(configuration) ==
        Cardinality({setting_id \in 1..Len(configuration) :
                       configuration[setting_id].value
                         # s.configurations_[reference_id + 1][setting_id].value})
  IN SelectSeq([other \in 1..Len(s.configurations_) |-> other - 1],
               LAMBDA other_id : differences(s.configurations_[other_id + 1]) <= 1)

\* Annealing::GetNeighboursOf: the 0-based ids, in list order, of the
\* configurations with exactly one setting whose value is not the value of
\* the setting at the same position of configurations_[reference_id]
Annealing_GetNeighboursOf(s, reference_id) ==
  LET differences(configuration) ==
        Cardinality({setting_id \in 1..Len(configuration) :
                       configuration[setting_id].value
                         # s.configurations_[reference_id + 1][setting_id].value})
  IN SelectSeq([other \in 1..Len(s.configurations_) |-> other - 1],
               LAMBDA other_id : differences(s.configurations_[other_id + 1]) = 1)

\* a call of GetNeighboursOf on a configuration of the list; the call and
\* its result are kept in `returned`
Annealing_Neighbours(reference_id) ==
  /\ pc = "search"
  /\ search.kind = "Annealing"
  /\ reference_id \in 0..(Len(search.configurations_) - 1)
  /\ returned' = <<[reference_id |-> reference_id,
                    neighbours |-> Annealing_GetNeighboursOf(search, reference_id)]>>
  /\ UNCHANGED <<report_vars, predict_vars, run_vars, setup_vars, enum_vars, search,
                 tune_vars>>

\* an Annealing searcher as Tune constructs it over the configurations that
\* SetConfigurationList enumerated for a kernel with parameters
AnnealingInit ==
  /\ \E ps \in EnumParameterLists, cs \in SeqUpTo(EnumConstraints, 1) :
       LET kernel == [NewKernelInfo("matvec_unroll", GlobalBase, LocalBase)
                        EXCEPT !.parameters_ = ps, !.constraints_ = cs]
           configurations == PopulateConfigurations(kernel, 0, <<>>, <<>>)
       IN /\ ps # <<>>
          /\ \A c \in 1..Len(cs) : AllParametersExist(kernel, ConstraintParameters(cs[c]))
          /\ kernels = <<[kernel EXCEPT !.configuration_list_ = configurations]>>
          /\ search = Annealing(configurations, Fraction(1, 1), 4)
  /\ outcome = Returned(-1)
  /\ enum_calls = <<1>>
  /\ returned = <<>>
  /\ has_reference_ = FALSE
  /\ search_method_ = "Annealing"
  /\ search_args_ = <<>>
  /\ tuning_results_ = <<>>
  /\ output_copy_ = "none"
  /\ pc = "search"
  /\ kernel_ix = 0
  /\ p = 0
  /\ tune_runs = 1
  /\ stdout_ = NoOutput
  /\ reference_kernel_ = <<>>
  /\ run_log = <<>>
  /\ prediction = NoPrediction

AnnealingNext ==
  \E reference_id \in 0..(Len(search.configurations_) - 1) : Annealing_Neighbours(reference_id)

SpecAnnealing == AnnealingInit /\ [][AnnealingNext]_vars

-----------------------------------------------------------------------------
(* A run of the annealing searcher: the iterations of Tune's loop, with     *)
(* CalculateNextIndex taken one call of the recursion at a time             *)

\* the retry budget of CalculateNextIndex; annealing.h declares the constant
\* without a value, the model takes a small one
kMaxAlreadyVisitedStates == 2

\* Annealing::NumConfigurations: size()*fraction_ converted to size_t
Annealing_NumConfigurations(s) == (Len(s.configurations_) * s.fraction_.num) \div s.fraction_.den

\* CalculateNextIndex, lines 66-76: the outcomes of "acceptance_probability >
\* random_probability" for a random probability in [0, 1). The temperature is
\* max_temperature_ * (1 - visited / NumConfigurations()), computed in doubles
Annealing_Accepts(s) ==
  LET current_energy == s.execution_times_[s.current_state_ + 1]
      neighbour_energy == s.execution_times_[s.neighbour_state_ + 1]
      total == Annealing_NumConfigurations(s)
      temperature ==
        IF total = 0 THEN (IF s.num_visited_states_ = 0 THEN "nan" ELSE "negative")
        ELSE IF s.num_visited_states_ < total THEN "positive"
        ELSE IF s.num_visited_states_ = total THEN "zero" ELSE "negative"
  IN IF neighbour_energy < current_energy THEN {TRUE}
     ELSE IF temperature = "nan" \/ temperature = "zero" THEN {FALSE}
     ELSE IF temperature = "negative" \/ neighbour_energy = current_energy THEN {TRUE}
     ELSE IF neighbour_energy = kMaxDouble THEN {FALSE}
     ELSE BOOLEAN

\* Annealing::GetConfiguration, at the top of an iteration of Tune's loop
Annealing_GetConfiguration ==
  /\ pc = "search"
  /\ search.kind = "Annealing"
  /\ p < Annealing_NumConfigurations(search)
  /\ search.index_ < Len(search.configurations_)
  /\ search' = [search EXCEPT !.num_visited_states_ = @ + 1]
  /\ pc' = "run"
  /\ UNCHANGED <<report_vars, predict_vars, run_vars, setup_vars, enum_vars, returned,
                 has_reference_, search_method_, search_args_, tuning_results_, output_copy_,
                 kernel_ix, p, tune_runs>>

\* Annealing::PushExecutionTime with the time of the run of the configuration
\* that GetConfiguration returned; `returned` keeps what was run
Annealing_Push(execution_time) ==
  /\ pc = "run"
  /\ search.kind = "Annealing"
  /\ search' = [search EXCEPT
                  !.explored_indices_ = Append(@, search.current_state_),
                  !.execution_times_[search.index_ + 1] = execution_time]
  /\ returned' = Append(returned, [index |-> search.index_,
                                   configuration |-> search.configurations_[search.index_ + 1],
                                   time |-> execution_time])
  /\ pc' = "next"
  /\ UNCHANGED <<report_vars, predict_vars, run_vars, setup_vars, enum_vars,
                 has_reference_, search_method_, search_args_, tuning_results_, output_copy_,
                 kernel_ix, p, tune_runs>>

\* a variant that retries without counting
Annealing_CalculateNextIndex_NoCount(accept, draw, visited) ==
  /\ pc = "next"
  /\ search.kind = "Annealing"
  /\ search.current_state_ < Len(search.configurations_)
  /\ search.neighbour_state_ < Len(search.configurations_)
  /\ accept \in Annealing_Accepts(search)
  /\ LET current == IF accept THEN search.neighbour_state_ ELSE search.current_state_
         neighbours == Annealing_GetNeighboursOf(search, current)
         candidates == IF neighbours = <<>> THEN {0, Len(search.configurations_)}
                       ELSE {neighbours[(draw % Len(neighbours)) + 1]}
     IN \E neighbour \in candidates :
          /\ visited \in (IF neighbour < Len(search.configurations_)
                            THEN {search.execution_times_[neighbour + 1] # kMaxDouble}
                            ELSE BOOLEAN)
          /\ IF visited
               THEN /\ search' = [search EXCEPT !.current_state_ = current,
                                                !.neighbour_state_ = neighbour]
                    /\ UNCHANGED <<pc, p>>
               ELSE /\ search' = [search EXCEPT !.current_state_ = current,
                                                !.neighbour_state_ = neighbour,
                                                !.num_already_visisted_states_ = 0,
                                                !.index_ = neighbour]
                    /\ pc' = "search"
                    /\ p' = p + 1
  /\ UNCHANGED <<report_vars, predict_vars, run_vars, setup_vars, enum_vars, returned,
                 has_reference_, search_method_, search_args_, tuning_results_, output_copy_,
                 kernel_ix, tune_runs>>

\* one call of Annealing::CalculateNextIndex: it either calls itself again
\* (the position stays in the function) or sets index_ and returns to Tune's
\* loop, which increments p. accept is the outcome of the acceptance test,
\* draw the number drawn from int_distribution_. With no neighbour,
\* "% neighbours.size()" divides by zero and neighbours[...] reads an empty
\* vector: when the program goes on, the id read is not one GetNeighboursOf
\* produced, and a read of execution_times_ outside the vector gives either
\* answer
Annealing_CalculateNextIndex(accept, draw, visited) ==
  /\ pc = "next"
  /\ search.kind = "Annealing"
  /\ search.current_state_ < Len(search.configurations_)
  /\ search.neighbour_state_ < Len(search.configurations_)
  /\ accept \in Annealing_Accepts(search)
  /\ LET current == IF accept THEN search.neighbour_state_ ELSE search.current_state_
         neighbours == Annealing_GetNeighboursOf(search, current)
         candidates == IF neighbours = <<>> THEN {0, Len(search.configurations_)}
                       ELSE {neighbours[(draw % Len(neighbours)) + 1]}
     IN \E neighbour \in candidates :
          /\ visited \in (IF neighbour < Len(search.configurations_)
                            THEN {search.execution_times_[neighbour + 1] # kMaxDouble}
                            ELSE BOOLEAN)
          /\ IF visited /\ search.num_already_visisted_states_ < kMaxAlreadyVisitedStates
               THEN /\ search' = [search EXCEPT !.current_state_ = current,
                                                !.neighbour_state_ = neighbour,
                                                !.num_already_visisted_states_ = @ + 1]
                    /\ UNCHANGED <<pc, p>>
               ELSE /\ search' = [search EXCEPT !.current_state_ = current,
                                                !.neighbour_state_ = neighbour,
                                                !.num_already_visisted_states_ = 0,
                                                !.index_ = neighbour]
                    /\ pc' = "search"
                    /\ p' = p + 1
  /\ UNCHANGED <<report_vars, predict_vars, run_vars, setup_vars, enum_vars, returned,
                 has_reference_, search_method_, search_args_, tuning_results_, output_copy_,
                 kernel_ix, tune_runs>>

\* the division by zero, or a read outside a vector, ends the program
Annealing_Crash ==
  /\ search.kind = "Annealing"
  /\ \/ /\ pc = "next"
        /\ \/ search.current_state_ >= Len(search.configurations_)
           \/ search.neighbour_state_ >= Len(search.configurations_)
           \/ /\ search.current_state_ < Len(search.configurations_)
              /\ search.neighbour_state_ < Len(search.configurations_)
              /\ \E accept \in Annealing_Accepts(search) :
                   Annealing_GetNeighboursOf(search,
                     IF accept THEN search.neighbour_state_ ELSE search.current_state_) = <<>>
     \/ /\ pc = "search"
        /\ p < Annealing_NumConfigurations(search)
        /\ search.index_ >= Len(search.configurations_)
  /\ pc' = "crashed"
  /\ UNCHANGED <<report_vars, predict_vars, run_vars, setup_vars, enum_vars, search_vars,
                 has_reference_, search_method_, search_args_, tuning_results_, output_copy_,
                 kernel_ix, p, tune_runs>>

\* an Annealing searcher as Tune constructs it for a kernel with one or two
\* parameters, with or without a constraint, after SetConfigurations
AnnealingRunInit ==
  /\ \E ps \in {<<[name |-> "TS1", values |-> <<8>>]>>,
                <<[name |-> "TS1", values |-> <<8, 16, 32>>]>>,
                <<[name |-> "TS1", values |-> <<8, 16>>],
                  [name |-> "TS2", values |-> <<8, 16>>]>>},
        cs \in {<<>>, <<Constraint2("TS1", "kEqual", "TS2")>>,
                <<Constraint2("TS2", "kSmallerEqual", "TS1")>>},
        fraction \in {Fraction(1, 2), Fraction(1, 1)} :
       LET kernel == [NewKernelInfo("matvec_unroll", GlobalBase, LocalBase)
                        EXCEPT !.parameters_ = ps, !.constraints_ = cs]
           configurations == PopulateConfigurations(kernel, 0, <<>>, <<>>)
       IN /\ \A c \in 1..Len(cs) : AllParametersExist(kernel, ConstraintParameters(cs[c]))
          /\ kernels = <<[kernel EXCEPT !.configuration_list_ = configurations]>>
          /\ search = Annealing(configurations, fraction, 4)
  /\ outcome = Returned(-1)
  /\ enum_calls = <<1>>
  /\ returned = <<>>
  /\ has_reference_ = FALSE
  /\ search_method_ = "Annealing"
  /\ search_args_ = <<>>
  /\ tuning_results_ = <<>>
  /\ output_copy_ = "none"
  /\ pc = "search"
  /\ kernel_ix = 0
  /\ p = 0
  /\ tune_runs = 1
  /\ stdout_ = NoOutput
  /\ reference_kernel_ = <<>>
  /\ run_log = <<>>
  /\ prediction = NoPrediction

AnnealingRunNext ==
  \/ Annealing_GetConfiguration
  \/ \E execution_time \in ExecutionTimes : Annealing_Push(execution_time)
  \/ \E accept \in BOOLEAN, draw \in 0..Len(search.configurations_), visited \in BOOLEAN :
       Annealing_CalculateNextIndex(accept, draw, visited)
  \/ Annealing_Crash

SpecAnnealingRun == AnnealingRunInit /\ [][AnnealingRunNext]_vars

\* the program goes on running: the loop and the recursion take their steps
SpecAnnealingRunFair == SpecAnnealingRun /\ WF_vars(AnnealingRunNext)

-----------------------------------------------------------------------------
(* Specification of the thread sizes of one kernel: modifiers are added and  *)
(* ComputeRanges is called on configurations of the kernel, in any order     *)

MaxRangeModifiers == 2

\* the modifiers that are added; "WPT" is no parameter of the kernel, and the
\* one-dimensional range reads "1" in the second dimension
RangeModifiers ==
  {[value |-> StringRange2("TS1", "TS2"), type |-> "kGlobalMul"],
   [value |-> StringRange2("TS2", ""), type |-> "kGlobalDiv"],
   [value |-> StringRange2("TS1", ""), type |-> "kLocalMul"],
   [value |-> StringRange2("TS2", "TS1"), type |-> "kLocalDiv"],
   [value |-> StringRange2("", ""), type |-> "kLocalMul"],
   [value |-> StringRange2("WPT", ""), type |-> "kGlobalMul"],
   [value |-> StringRange1("TS1"), type |-> "kLocalDiv"]}

\* KernelInfo::AddModifier on the kernel
Ranges_AddModifier(range, type) ==
  /\ pc = "idle"
  /\ Len(kernels[1].thread_size_modifiers_) < MaxRangeModifiers
  /\ kernels' = <<KernelInfo_AddModifier(kernels[1], range, type)>>
  /\ UNCHANGED <<report_vars, predict_vars, run_vars, outcome, enum_vars, search_vars,
                 tune_vars>>

\* KernelInfo::ComputeRanges on a configuration of the kernel; `returned`
\* keeps the configuration of the last call and `outcome` what it threw
Ranges_ComputeRanges(c) ==
  /\ pc = "idle"
  /\ c \in 1..Len(kernels[1].configuration_list_)
  /\ LET configuration == kernels[1].configuration_list_[c]
         result == ComputeRanges(kernels[1], configuration)
     IN /\ kernels' = <<result.kernel>>
        /\ outcome' = IF result.error = "" THEN Returned(-1) ELSE Thrown(result.error)
        /\ returned' = <<configuration>>
  /\ UNCHANGED <<report_vars, predict_vars, run_vars, enum_vars, search, tune_vars>>

\* a kernel with one or two parameters and a one- or two-dimensional base
\* size, possibly with a local size of another dimension, after
\* SetConfigurationList
RangesInit ==
  /\ \E sizes \in {<<<<128>>, <<8>>>>, <<GlobalBase, LocalBase>>, <<GlobalBase, <<8>>>>},
        ps \in {<<[name |-> "TS1", values |-> <<8, 16>>]>>,
                <<[name |-> "TS1", values |-> <<8, 16>>],
                  [name |-> "TS2", values |-> <<16, 3>>]>>} :
       LET kernel == [NewKernelInfo("matvec_unroll", sizes[1], sizes[2])
                        EXCEPT !.parameters_ = ps]
       IN kernels = <<[kernel EXCEPT !.configuration_list_ =
                         PopulateConfigurations(kernel, 0, <<>>, <<>>)]>>
  /\ outcome = Returned(-1)
  /\ enum_calls = <<1>>
  /\ search = NoSearch
  /\ returned = <<>>
  /\ has_reference_ = FALSE
  /\ search_method_ = "FullSearch"
  /\ search_args_ = <<>>
  /\ tuning_results_ = <<>>
  /\ output_copy_ = "none"
  /\ pc = "idle"
  /\ kernel_ix = 0
  /\ p = 0
  /\ tune_runs = 0
  /\ stdout_ = NoOutput
  /\ reference_kernel_ = <<>>
  /\ run_log = <<>>
  /\ prediction = NoPrediction

RangesNext ==
  \/ \E modifier \in RangeModifiers : Ranges_AddModifier(modifier.value, modifier.type)
  \/ \E c \in 1..Len(kernels[1].configuration_list_) : Ranges_ComputeRanges(c)

SpecRanges == RangesInit /\ [][RangesNext]_vars

-----------------------------------------------------------------------------
(* MLModel: feature normalization (src/src/ml_model.cc)                     *)
(* The features are the integer parameter values cast to float; a float is  *)
(* kept as the exact fraction num/den, or as what IEEE division by zero     *)
(* yields: "nan" for 0/0 and "inf" for a non-zero numerator.                *)

MaxSamples == 2

\* the feature rows of ModelPrediction (tuner_impl.cc 512-527): one value per
\* parameter of the configuration
FeatureRows == [1..2 -> {8, 16}]

\* MLModel::ComputeNormalizations with m = x.size(), n = x[0].size(): ranges_
\* and means_ as the loop leaves them (line 69 overwrites the 1 of the resize
\* for every feature); the mean sum/m is kept as a fraction
ComputeNormalizations(x) ==
  LET column(nid) == {x[mid][nid] : mid \in 1..Len(x)}
      max(nid) == CHOOSE v \in column(nid) : \A w \in column(nid) : w <= v
      min(nid) == CHOOSE v \in column(nid) : \A w \in column(nid) : v <= w
      sum[mid \in 0..Len(x)] ==
        [nid \in 1..Len(x[1]) |->
           IF mid = 0 THEN 0 ELSE sum[mid - 1][nid] + x[mid][nid]]
  IN [ranges_ |-> [nid \in 1..Len(x[1]) |-> max(nid) - min(nid)],
      means_ |-> [nid \in 1..Len(x[1]) |->
                    [num |-> sum[Len(x)][nid], den |-> Len(x)]]]

\* MLModel::NormalizeFeatures, line 79: (x[mid][nid] - means_[nid]) /
\* ranges_[nid] for every sample and feature
NormalizeFeatures(model, x) ==
  [mid \in 1..Len(x) |->
     [nid \in 1..Len(x[mid]) |->
        LET num == x[mid][nid] * model.means_[nid].den - model.means_[nid].num
            den == model.means_[nid].den * model.ranges_[nid]
        IN IF den # 0 THEN [kind |-> "finite", num |-> num, den |-> den]
           ELSE IF num = 0 THEN [kind |-> "nan", num |-> 0, den |-> 0]
           ELSE [kind |-> "inf", num |-> num, den |-> 0]]]

\* LinearRegression::Train / NeuralNetwork::Train, first step: the
\* normalization data is computed from the training features
MLModel_ComputeNormalizations ==
  /\ pc = "idle"
  /\ prediction' = prediction @@ ComputeNormalizations(prediction.x_train)
  /\ pc' = "train"
  /\ UNCHANGED <<setup_vars, enum_vars, search_vars, has_reference_,
                 search_method_, search_args_, tuning_results_, output_copy_,
                 kernel_ix, p, tune_runs, report_vars, run_vars>>

\* PreProcessFeatures of Train on the copy of the training features, then
\* PreProcessFeatures of Validate on the copy of the validation features
MLModel_NormalizeFeatures ==
  /\ pc \in {"train", "validate"}
  /\ prediction' =
       [prediction EXCEPT !.x_temp =
          NormalizeFeatures(prediction,
                            IF pc = "train" THEN prediction.x_train
                            ELSE prediction.x_validation)]
  /\ pc' = IF pc = "train" THEN "validate" ELSE "done"
  /\ UNCHANGED <<setup_vars, enum_vars, search_vars, has_reference_,
                 search_method_, search_args_, tuning_results_, output_copy_,
                 kernel_ix, p, tune_runs, report_vars, run_vars>>

\* ModelPrediction has split the tuning results into at least one training
\* sample and the validation samples; no model is trained yet
NormalizeInit ==
  /\ \E x_train \in SeqUpTo(FeatureRows, MaxSamples) \ {<<>>},
        x_validation \in SeqUpTo(FeatureRows, 1) :
       prediction = [x_train |-> x_train, x_validation |-> x_validation,
                     x_temp |-> <<>>]
  /\ kernels = <<>>
  /\ outcome = Returned(-1)
  /\ enum_calls = <<>>
  /\ search = NoSearch
  /\ returned = <<>>
  /\ has_reference_ = FALSE
  /\ search_method_ = "FullSearch"
  /\ search_args_ = <<>>
  /\ tuning_results_ = <<>>
  /\ output_copy_ = "none"
  /\ pc = "idle"
  /\ kernel_ix = 0
  /\ p = 0
  /\ tune_runs = 0
  /\ stdout_ = NoOutput
  /\ reference_kernel_ = <<>>
  /\ run_log = <<>>

NormalizeNext ==
  \/ MLModel_ComputeNormalizations
  \/ MLModel_NormalizeFeatures

SpecNormalize == NormalizeInit /\ [][NormalizeNext]_vars

-----------------------------------------------------------------------------
(* The choice of the search method (src/src/cltune.cc 205-232) and the      *)
(* switch of Tune that creates the searcher (src/src/tuner_impl.cc 175-194). *)
(* search_args_ is a vector of doubles; every double is kept as a Fraction. *)

MaxUseArgs == 2

\* Tuner::UseAnnealing
UseAnnealing(fraction, max_temperature) ==
  /\ pc = "idle"
  /\ Len(search_args_) < MaxUseArgs
  /\ search_method_' = "Annealing"
  /\ search_args_' = search_args_ \o <<fraction, max_temperature>>
  /\ UNCHANGED <<report_vars, predict_vars, run_vars, setup_vars, enum_vars, search_vars,
                 has_reference_,
                 tuning_results_, output_copy_, pc, kernel_ix, p, tune_runs>>

\* Tuner::UsePSO; swarm_size is the size_t passed, pushed as a double
UsePSO(fraction, swarm_size, influence_global, influence_local, influence_random) ==
  /\ pc = "idle"
  /\ Len(search_args_) < MaxUseArgs
  /\ search_method_' = "PSO"
  /\ search_args_' = search_args_ \o <<fraction, Fraction(swarm_size, 1), influence_global,
                                       influence_local, influence_random>>
  /\ UNCHANGED <<report_vars, predict_vars, run_vars, setup_vars, enum_vars, search_vars,
                 has_reference_,
                 tuning_results_, output_copy_, pc, kernel_ix, p, tune_runs>>

\* Tune, lines 175-194, for the first kernel: SetConfigurations, then the
\* switch over search_method_ creates the searcher from search_args_[0..4];
\* static_cast<size_t> of a double drops its fraction.  A swarm of size 0
\* makes the constructor of PSO read particle_positions_[0] of an empty vector
Tune_Switch ==
  /\ pc = "idle"
  /\ tune_runs < MaxTuneRuns
  /\ tune_runs' = tune_runs + 1
  /\ kernels' = [kernels EXCEPT ![1].configuration_list_ =
                   PopulateConfigurations(kernels[1], 0, <<>>, @)]
  /\ enum_calls' = [enum_calls EXCEPT ![1] = @ + 1]
  /\ LET configurations == kernels'[1].configuration_list_
         swarm_size == search_args_[2].num \div search_args_[2].den
     IN \/ /\ search_method_ = "FullSearch"
           /\ search' = FullSearch(configurations)
           /\ pc' = "loop"
        \/ /\ search_method_ = "RandomSearch"
           /\ \E shuffled \in Shuffles(configurations) :
                search' = RandomSearch(shuffled, search_args_[1])
           /\ pc' = "loop"
        \/ /\ search_method_ = "Annealing"
           /\ search' = Annealing(configurations, search_args_[1], search_args_[2])
           /\ pc' = "loop"
        \/ /\ search_method_ = "PSO"
           /\ swarm_size > 0
           /\ \E positions \in [1..swarm_size -> 0..Len(configurations)] :
                search' = PSO(configurations, kernels[1].parameters_, search_args_[1],
                              swarm_size,
                              <<search_args_[3], search_args_[4], search_args_[5]>>,
                              positions)
           /\ pc' = "loop"
        \/ /\ search_method_ = "PSO"
           /\ swarm_size = 0
           /\ search' = NoSearch
           /\ pc' = "crashed"
  /\ UNCHANGED <<report_vars, predict_vars, run_vars, outcome, returned, has_reference_,
                 search_method_, search_args_, tuning_results_, output_copy_,
                 kernel_ix, p>>

\* a tuner with one kernel with the parameter TS1; no search method is chosen
\* yet, so FullSearch is the method
UseInit ==
  /\ kernels = <<[NewKernelInfo("matvec_unroll", GlobalBase, LocalBase)
                    EXCEPT !.parameters_ = <<[name |-> "TS1", values |-> <<8, 16>>]>>]>>
  /\ outcome = Returned(-1)
  /\ enum_calls = <<0>>
  /\ search = NoSearch
  /\ returned = <<>>
  /\ has_reference_ = FALSE
  /\ search_method_ = "FullSearch"
  /\ search_args_ = <<>>
  /\ tuning_results_ = <<>>
  /\ output_copy_ = "none"
  /\ pc = "idle"
  /\ kernel_ix = 0
  /\ p = 0
  /\ tune_runs = 0
  /\ stdout_ = NoOutput
  /\ reference_kernel_ = <<>>
  /\ run_log = <<>>
  /\ prediction = NoPrediction

UseNext ==
  \/ UseFullSearch
  \/ \E fraction \in TuneFractions : UseRandomSearch(fraction)
  \/ \E fraction \in TuneFractions, max_temperature \in {Fraction(2, 1), Fraction(4, 1)} :
       UseAnnealing(fraction, max_temperature)
  \/ \E fraction \in TuneFractions, swarm_size \in 1..2,
        influences \in {<<Fraction(1, 2), Fraction(1, 4), Fraction(1, 4)>>,
                        <<Fraction(0, 1), Fraction(0, 1), Fraction(1, 1)>>} :
       UsePSO(fraction, swarm_size, influences[1], influences[2], influences[3])
  \/ Tune_Switch

SpecUse == UseInit /\ [][UseNext]_vars

-----------------------------------------------------------------------------
(* Claims about the set-up phase (checked under SpecSetup) *)

\* the names declared on the kernel with 0-based id
DeclaredNames(id) == {kernels[id + 1].parameters_[i].name :
                       i \in 1..Len(kernels[id + 1].parameters_)}

ValidId(id) == id \in 0..(Len(kernels) - 1)

\* every kernel but the one with 0-based id is left as it was
OnlyKernelChanged(id) ==
  /\ Len(kernels') = Len(kernels)
  /\ \A j \in 1..Len(kernels) : j # id + 1 => kernels'[j] = kernels[j]

C1_Step(id, name, values) ==
  (AddParameter(id, name, values) /\ ValidId(id)) =>
     IF name \in DeclaredNames(id)
       THEN outcome'.error = "Parameter already exists" /\ kernels' = kernels
       ELSE /\ outcome'.error = ""
            /\ kernels'[id + 1].parameters_ =
                 Append(kernels[id + 1].parameters_, [name |-> name, values |-> values])
            /\ OnlyKernelChanged(id)

C1_NamesUnique ==
  \A k \in 1..Len(kernels) : \A i, j \in 1..Len(kernels[k].parameters_) :
     kernels[k].parameters_[i].name = kernels[k].parameters_[j].name => i = j

\* C1: AddParameter on a kernel throws when the name was already declared on
\* that kernel and then leaves every kernel unchanged; the first declaration of
\* a name returns and appends the parameter; so no kernel ever holds a name twice.
C1_DuplicateParameterFails ==
  /\ []C1_NamesUnique
  /\ [][\A id \in KernelIds, name \in ParamNames, values \in ValueLists :
          C1_Step(id, name, values)]_vars

\* a duplicate declaration was rejected on a kernel that holds parameters
C1_Witness ==
  /\ outcome.error = "Parameter already exists"
  /\ \E k \in 1..Len(kernels) : Len(kernels[k].parameters_) = 2

\* a step is one of the seven per-kernel set-up calls with kernel id "id"
PerKernelCall(id) ==
  \/ \E name \in ParamNames, values \in ValueLists : AddParameter(id, name, values)
  \/ \E range \in StringRanges :
        \/ MulGlobalSize(id, range) \/ DivGlobalSize(id, range)
        \/ MulLocalSize(id, range) \/ DivLocalSize(id, range)
  \/ \E constraint \in SetupConstraints : AddConstraint(id, constraint)
  \/ \E parameters \in SetupNameLists : SetLocalMemoryUsage(id, parameters)

\* C2 as stated: with an invalid id every per-kernel set-up call throws and
\* changes no kernel, with a valid id it returns.
C2_Original ==
  [][\A id \in KernelIds :
       PerKernelCall(id) =>
         IF ValidId(id) THEN outcome'.error = ""
                        ELSE outcome'.error # "" /\ kernels' = kernels]_vars

C2_ModifierStep(id) ==
  (\E range \in StringRanges :
     \/ MulGlobalSize(id, range) \/ DivGlobalSize(id, range)
     \/ MulLocalSize(id, range) \/ DivLocalSize(id, range))
  => (ValidId(id) => outcome'.error = "")

C2_AddParameterStep(id) ==
  \A name \in ParamNames, values \in ValueLists :
    (AddParameter(id, name, values) /\ ValidId(id)) =>
       (outcome'.error = "" <=> name \notin DeclaredNames(id))

C2_NamesStep(id) ==
  /\ \A constraint \in SetupConstraints :
       (AddConstraint(id, constraint) /\ ValidId(id)) =>
          (outcome'.error = "" <=> Range(ConstraintParameters(constraint)) \subseteq DeclaredNames(id))
  /\ \A parameters \in SetupNameLists :
       (SetLocalMemoryUsage(id, parameters) /\ ValidId(id)) =>
          (outcome'.error = "" <=> Range(parameters) \subseteq DeclaredNames(id))

\* C2 amended: with an invalid id every per-kernel set-up call throws
\* "Invalid kernel ID" and changes no kernel; with a valid id it never throws
\* that error, the four thread-size calls return, AddParameter returns unless
\* the name is already declared, and AddConstraint and SetLocalMemoryUsage
\* return unless one of the names is not declared.
C2_InvalidKernelId ==
  [][\A id \in KernelIds :
       /\ PerKernelCall(id) =>
            IF ValidId(id) THEN outcome'.error # "Invalid kernel ID"
                           ELSE outcome'.error = "Invalid kernel ID" /\ kernels' = kernels
       /\ C2_ModifierStep(id)
       /\ C2_AddParameterStep(id)
       /\ C2_NamesStep(id)]_vars

\* a call with an invalid id was rejected although a kernel exists
C2_Witness ==
  /\ outcome.error = "Invalid kernel ID"
  /\ Len(kernels) >= 1
  /\ \E k \in 1..Len(kernels) : Len(kernels[k].thread_size_modifiers_) > 0

C3_Step(file_ok, kernel_name) ==
  (AddKernel(file_ok, kernel_name) /\ file_ok) =>
     /\ outcome' = Returned(Len(kernels))
     /\ Len(kernels') = Len(kernels) + 1
     /\ kernels'[outcome'.id + 1].name = kernel_name

\* C3: AddKernel returns the number of kernels added before the call, the new
\* kernel is the one that id designates, and in every step each earlier id
\* keeps designating the kernel it designated.
C3_IncrementingIds ==
  /\ [][\A file_ok \in BOOLEAN, kernel_name \in KernelNames :
          C3_Step(file_ok, kernel_name)]_vars
  /\ [][\A j \in 1..Len(kernels) :
          Len(kernels') >= j /\ kernels'[j].name = kernels[j].name]_vars

\* the second AddKernel call returned id 1 and id 0 still designates the first kernel
C3_Witness ==
  /\ Len(kernels) = 2
  /\ outcome = Returned(1)
  /\ kernels[1].name # kernels[2].name

-----------------------------------------------------------------------------
(* Claims about the enumeration (checked under SpecEnum) *)

\* k_i, the number of candidate values of the i-th parameter
NumValues(kernel, i) == Len(kernel.parameters_[i].values)

\* k_(i+1) * ... * k_N
RECURSIVE Stride(_, _)
Stride(kernel, i) ==
  IF i >= Len(kernel.parameters_) THEN 1
  ELSE NumValues(kernel, i + 1) * Stride(kernel, i + 1)

\* k_1 * ... * k_N
Product(kernel) == Stride(kernel, 0)

\* the j-th (0-based) element of the Cartesian product in lexicographic order:
\* parameters in declaration order, the first one varying slowest
LexConfiguration(kernel, j) ==
  [i \in 1..Len(kernel.parameters_) |->
     [name |-> kernel.parameters_[i].name,
      value |-> kernel.parameters_[i].values[((j \div Stride(kernel, i)) % NumValues(kernel, i)) + 1]]]

LexProduct(kernel) == [j \in 1..Product(kernel) |-> LexConfiguration(kernel, j - 1)]

\* every complete binding of the declared parameters
AllBindings(kernel) ==
  LET N == Len(kernel.parameters_)
      Values == UNION {Range(kernel.parameters_[i].values) : i \in 1..N}
      Names == {kernel.parameters_[i].name : i \in 1..N}
  IN {b \in [1..N -> [name : Names, value : Values]] :
        \A i \in 1..N : /\ b[i].name = kernel.parameters_[i].name
                         /\ b[i].value \in Range(kernel.parameters_[i].values)}

\* the value a binding gives to a parameter name
ValueOf(binding, name) == binding[CHOOSE i \in 1..Len(binding) : binding[i].name = name].value

\* what a constraint demands of the values of its parameters, in the order supplied
Predicate(constraint, v) ==
  LET Op(op, a, b) == IF op = "kMultipliedBy" THEN a * b ELSE a \div b
      rhs == IF Len(v) = 2 THEN v[2]
             ELSE IF Len(v) = 3 THEN Op(constraint.op_1, v[2], v[3])
             ELSE Op(constraint.op_2, Op(constraint.op_1, v[2], v[3]), v[4])
  IN CASE constraint.type = "kEqual" -> v[1] = rhs
       [] constraint.type = "kLargerThan" -> rhs < v[1]
       [] constraint.type = "kLargerEqual" -> ~(v[1] < rhs)
       [] constraint.type = "kSmallerThan" -> v[1] < rhs
       [] constraint.type = "kSmallerEqual" -> ~(rhs < v[1])
       [] constraint.type = "kMultipleOf" -> v[1] % rhs = 0

\* every declared constraint holds on a binding
Holds(kernel, binding) ==
  \A c \in 1..Len(kernel.constraints_) :
    LET constraint == kernel.constraints_[c]
        names == ConstraintParameters(constraint)
    IN Predicate(constraint, [i \in 1..Len(names) |-> ValueOf(binding, names[i])])

RECURSIVE Repeat(_, _)
Repeat(s, n) == IF n = 0 THEN <<>> ELSE s \o Repeat(s, n - 1)

\* C4: without constraints every SetConfigurationList call pushes exactly
\* k1*...*kN configurations (one empty configuration when N = 0), and every
\* configuration has N settings named as the parameters, in declaration order.
C4_ProductCount ==
  \A k \in 1..Len(kernels) :
    LET kernel == kernels[k]
        list == kernel.configuration_list_
    IN kernel.constraints_ = <<>> =>
         /\ Len(list) = enum_calls[k] * Product(kernel)
         /\ \A c \in 1..Len(list) :
              /\ Len(list[c]) = Len(kernel.parameters_)
              /\ \A i \in 1..Len(list[c]) : list[c][i].name = kernel.parameters_[i].name
         /\ (Len(kernel.parameters_) = 0 /\ enum_calls[k] = 1) => list = << <<>> >>

\* two parameters with 2 and 3 values were enumerated once into 6 configurations
C4_Witness ==
  /\ enum_calls[1] = 1
  /\ kernels[1].constraints_ = <<>>
  /\ Len(kernels[1].parameters_) = 2
  /\ Len(kernels[1].parameters_[1].values) = 2
  /\ Len(kernels[1].parameters_[2].values) = 3
  /\ Len(kernels[1].configuration_list_) = 6

C5_Scenario(kernel) ==
  /\ kernel.parameters_ = <<[name |-> "TS1", values |-> <<8, 16>>],
                            [name |-> "TS2", values |-> <<8, 16>>]>>
  /\ kernel.constraints_ = <<Constraint2("TS2", "kSmallerEqual", "TS1")>>

\* C5: after enumeration a complete binding is in the configuration list
\* exactly if every declared constraint holds on it; TS1 > TS1 leaves no
\* configuration, TS1 == TS1 removes none, and TS2 <= TS1 over [8,16] x [8,16]
\* leaves the three configurations other than (TS1=8, TS2=16).
C5_ConstraintsFilter ==
  \A k \in 1..Len(kernels) :
    LET kernel == kernels[k]
        list == kernel.configuration_list_
    IN enum_calls[k] >= 1 =>
         /\ \A b \in AllBindings(kernel) : b \in Range(list) <=> Holds(kernel, b)
         /\ Range(list) \subseteq AllBindings(kernel)
         /\ kernel.constraints_ = <<Constraint2("TS1", "kLargerThan", "TS1")>> => list = <<>>
         /\ kernel.constraints_ = <<Constraint2("TS1", "kEqual", "TS1")>> =>
              Len(list) = enum_calls[k] * Product(kernel)
         /\ (C5_Scenario(kernel) /\ enum_calls[k] = 1) =>
              list = << <<[name |-> "TS1", value |-> 8], [name |-> "TS2", value |-> 8]>>,
                        <<[name |-> "TS1", value |-> 16], [name |-> "TS2", value |-> 8]>>,
                        <<[name |-> "TS1", value |-> 16], [name |-> "TS2", value |-> 16]>> >>

\* the TS2 <= TS1 scenario was enumerated and (TS1=8, TS2=16) is not in the list
C5_Witness ==
  /\ enum_calls[1] = 1
  /\ C5_Scenario(kernels[1])
  /\ Len(kernels[1].configuration_list_) = 3
  /\ <<[name |-> "TS1", value |-> 8], [name |-> "TS2", value |-> 16]>>
       \notin Range(kernels[1].configuration_list_)

\* C6: every SetConfigurationList call pushes the Cartesian product in
\* lexicographic order (first declared parameter slowest, values in declared
\* order) with the bindings that break a constraint left out and the others
\* in their product order.
C6_LexicographicOrder ==
  \A k \in 1..Len(kernels) :
    LET kernel == kernels[k]
        Legal(b) == Holds(kernel, b)
    IN kernel.configuration_list_ =
         Repeat(SelectSeq(LexProduct(kernel), Legal), enum_calls[k])

\* a constrained kernel whose second parameter lists its values in descending
\* order was enumerated, and the list starts with that parameter's first value
C6_Witness ==
  /\ enum_calls[1] = 1
  /\ Len(kernels[1].constraints_) = 1
  /\ Len(kernels[1].parameters_) = 2
  /\ kernels[1].parameters_[2].values = <<16, 8>>
  /\ Len(kernels[1].configuration_list_) \in 2..3
  /\ kernels[1].configuration_list_[1][2].value = 16

-----------------------------------------------------------------------------
(* Claims about the searchers (checked under SpecSearch) *)

\* the configurations handed out so far, in order
ReturnedConfigurations == [k \in 1..Len(returned) |-> returned[k].configuration]

BagOf(sequence) ==
  [x \in Range(sequence) |-> Cardinality({k \in 1..Len(sequence) : sequence[k] = x})]

\* floor(n * fraction)
FloorOf(n, fraction) ==
  CHOOSE k \in 0..(n * fraction.num) :
    k * fraction.den <= n * fraction.num /\ n * fraction.num < (k + 1) * fraction.den

\* C7: FullSearch reports as many configurations as the list has, and the
\* steps of a run return the configurations of the list one by one in list
\* order, so that a full run returns exactly the list.
C7_FullSearchInOrder ==
  search.kind = "FullSearch" =>
    LET list == kernels[1].configuration_list_ IN
    /\ FullSearch_NumConfigurations(search) = Len(list)
    /\ p <= Len(list)
    /\ Len(returned) = p
    /\ ReturnedConfigurations = SubSeq(list, 1, p)
    /\ \A k \in 1..Len(returned) : returned[k].index = k - 1
    /\ ~(ENABLED SearchNext) => ReturnedConfigurations = list

\* a full run over three different configurations has ended
C7_Witness ==
  /\ search.kind = "FullSearch"
  /\ Len(kernels[1].configuration_list_) = 3
  /\ Cardinality(Range(kernels[1].configuration_list_)) = 3
  /\ p = 3
  /\ Len(returned) = 3

-----------------------------------------------------------------------------
(* Claims about Tune (checked under SpecTune) *)

\* C9: every stored result whose time is the failed-run time has status false.
C9_FailedHasStatusFalse ==
  \A k \in 1..Len(tuning_results_) :
    tuning_results_[k].time = kMaxFloat => tuning_results_[k].status = FALSE

\* a failed run was stored with status true, and tuning went on after it
C9_Witness ==
  \E k \in 1..Len(tuning_results_) :
    /\ tuning_results_[k].time = kMaxFloat
    /\ tuning_results_[k].status = TRUE
    /\ k < Len(tuning_results_)

\* the configurations of the last n stored results
LastConfigurations(n) ==
  [k \in 1..n |-> tuning_results_[Len(tuning_results_) - n + k].configuration]

C10_InLoop ==
  pc = "loop" =>
    /\ p <= NumConfigurations(search)
    /\ Len(returned) = p
    /\ p <= Len(tuning_results_)
    /\ LastConfigurations(p) = ReturnedConfigurations

\* no step changes, removes or reorders a stored result
C10_AppendOnly ==
  /\ Len(tuning_results_') >= Len(tuning_results_)
  /\ SubSeq(tuning_results_', 1, Len(tuning_results_)) = tuning_results_

\* an iteration appends one result, which carries the searcher's configuration
C10_IterationStep ==
  /\ (pc = "loop" /\ pc' = "loop") =>
       /\ p' = p + 1
       /\ Len(tuning_results_') = Len(tuning_results_) + 1
       /\ tuning_results_'[Len(tuning_results_')].configuration = GetConfiguration(search)
       /\ tuning_results_'[Len(tuning_results_')].kernel_name = kernels[kernel_ix + 1].name
  /\ (pc = "kernel" /\ pc' = "loop") =>
       /\ Len(kernels[kernel_ix + 1].parameters_) > 0
       /\ p' = 0
       /\ tuning_results_' = tuning_results_

C10_OriginalStep ==
  /\ C10_AppendOnly
  /\ C10_IterationStep
  /\ (pc = "loop" /\ pc' # "loop") =>
       (p = NumConfigurations(search) /\ tuning_results_' = tuning_results_)

\* C10, as stated: for a kernel with parameters the configuration loop of
\* Tune ends after exactly NumConfigurations() iterations; every iteration
\* appends one result, which carries the configuration the searcher returned
\* in it; no step changes, removes or reorders a result already stored.
C10_Original == []C10_InLoop /\ [][C10_OriginalStep]_vars

C10_AmendedStep ==
  LET ranges == ComputeRanges(kernels[kernel_ix + 1], GetConfiguration(search)) IN
  /\ C10_AppendOnly
  /\ C10_IterationStep
  /\ (pc = "loop" /\ pc' = "kernel") =>
       (p = NumConfigurations(search) /\ tuning_results_' = tuning_results_)
  /\ (pc = "loop" /\ pc' = "idle") =>
       /\ p < NumConfigurations(search)
       /\ ranges.error # ""
       /\ outcome'.error = ranges.error
       /\ tuning_results_' = tuning_results_
  /\ (pc = "loop" /\ pc' = "loop") => ranges.error = ""

\* C10, amended: as C10_Original, except that the loop also ends, before
\* NumConfigurations() iterations, when ComputeRanges throws for the
\* configuration the searcher returned: Tune then ends with that exception
\* and the results stored so far.
C10_OneResultPerIteration == []C10_InLoop /\ [][C10_AmendedStep]_vars

\* the loop over the two configurations of a kernel has ended with two
\* results stored, in the order the searcher returned them
C10_Witness ==
  /\ pc = "kernel"
  /\ kernel_ix = 1
  /\ search.kind = "RandomSearch"
  /\ p = 2
  /\ Len(tuning_results_) = 2
  /\ LastConfigurations(2) = ReturnedConfigurations
  /\ ReturnedConfigurations # kernels[1].configuration_list_

-----------------------------------------------------------------------------
(* Claims about reporting (checked under SpecReport) *)

\* the positions of the results with status true, and of the fastest of them
CorrectIndices == {k \in 1..Len(tuning_results_) : tuning_results_[k].status}
FastestIndices ==
  {k \in CorrectIndices :
     \A j \in CorrectIndices : tuning_results_[k].time <= tuning_results_[j].time}
Smallest(S) == CHOOSE k \in S : \A j \in S : k <= j
Largest(S) == CHOOSE k \in S : \A j \in S : k >= j

\* the last reporting call presented the result at position k as the best one
PresentedAsBest(k) ==
  /\ ~stdout_.crashed
  /\ stdout_.call = "PrintToScreen" =>
       /\ stdout_.best = <<tuning_results_[k]>>
       /\ stdout_.returned = tuning_results_[k].time
  /\ stdout_.call = "PrintFormatted" =>
       stdout_.database = <<tuning_results_[k].configuration>>

\* C11 as stated: best-result selection gives the result with status true and
\* the minimum time, and of several such results the one appended first
C11_Original ==
  (stdout_.call # "" /\ CorrectIndices # {}) => PresentedAsBest(Smallest(FastestIndices))

\* C11, amended: best-result selection gives a result with status true and
\* the minimum time; of several such results it gives the one appended last
C11_LastOfFastest ==
  (stdout_.call # "" /\ CorrectIndices # {}) => PresentedAsBest(Largest(FastestIndices))

\* a report over two correct results of the same, minimum time that differ
C11_Witness ==
  /\ stdout_.call = "PrintToScreen"
  /\ Cardinality(FastestIndices) >= 2
  /\ tuning_results_[Smallest(FastestIndices)] # tuning_results_[Largest(FastestIndices)]
  /\ \E k \in CorrectIndices : k \notin FastestIndices

\* C12: when no result has status true (the list may be empty), a reporting
\* call that selects a best result says that there is no valid result and
\* presents no result and no configuration as the best
C12_NoValidResult ==
  (stdout_.call # "" /\ CorrectIndices = {}) =>
     /\ ~stdout_.crashed
     /\ stdout_.headers = <<"No tuner results found">>
     /\ stdout_.best = <<>>
     /\ stdout_.database = <<>>

\* PrintFormatted over a list of failed results only
C12_Witness ==
  /\ stdout_.call = "PrintFormatted"
  /\ tuning_results_ # <<>>
  /\ CorrectIndices = {}
  /\ stdout_.database = <<tuning_results_[1].configuration>>

-----------------------------------------------------------------------------
(* Claims about the reference run and kernels without parameters (SpecTune) *)

ReferenceRuns == {k \in 1..Len(run_log) : run_log[k].reference}

\* C13: with a reference kernel registered, Tune runs it exactly once, before
\* every run of a tuned kernel, and stores its output as the reference; with
\* none registered there is no reference run and every verification says true
C13_ReferenceFirstAndOnce ==
  /\ (pc \in {"kernel", "loop"} /\ reference_kernel_ # <<>>) =>
        /\ ReferenceRuns = {1}
        /\ run_log[1].kernel_name = reference_kernel_[1].name
        /\ (pc = "kernel" /\ kernel_ix = 0) => output_copy_ \in {"none", "match"}
  /\ (pc \in {"kernel", "loop", "crashed"} /\ reference_kernel_ = <<>>) =>
        /\ ReferenceRuns = {}
        /\ \A k \in 1..Len(run_log) : run_log[k].verified

\* Tune with a reference has run two configurations, the second of which
\* does not match the reference
C13_Witness ==
  /\ pc = "loop"
  /\ reference_kernel_ # <<>>
  /\ Len(run_log) = 3
  /\ ~run_log[3].verified

\* C14, as a step of Tune at a kernel without parameters: the kernel is run
\* once, with its own source and its base sizes, the output is verified, one
\* result with an empty configuration is appended, no searcher is created
C14_Step ==
  (pc = "kernel" /\ kernel_ix < Len(kernels)
     /\ kernels[kernel_ix + 1].parameters_ = <<>>) =>
    LET kernel == kernels[kernel_ix + 1]
        verified == ~has_reference_ \/ output_copy_' \in {"none", "match"}
    IN /\ Len(run_log') = Len(run_log) + 1
       /\ SubSeq(run_log', 1, Len(run_log)) = run_log
       /\ run_log'[Len(run_log')] =
            [kernel_name |-> kernel.name, defines |-> <<>>, global |-> kernel.global_base_,
             local |-> kernel.local_base_, reference |-> FALSE, verified |-> verified]
       /\ Len(tuning_results_') = Len(tuning_results_) + 1
       /\ SubSeq(tuning_results_', 1, Len(tuning_results_)) = tuning_results_
       /\ tuning_results_'[Len(tuning_results_')].kernel_name = kernel.name
       /\ tuning_results_'[Len(tuning_results_')].configuration = <<>>
       /\ tuning_results_'[Len(tuning_results_')].status = verified
       /\ search' = search
       /\ kernels' = kernels
       /\ kernel_ix' = kernel_ix + 1

C14_ZeroParameterKernel == [][C14_Step]_vars

\* a kernel without parameters has been run after the reference and its
\* output did not match
C14_Witness ==
  /\ pc = "kernel"
  /\ kernel_ix = 1
  /\ kernels[1].parameters_ = <<>>
  /\ has_reference_
  /\ Len(tuning_results_) = 1
  /\ ~tuning_results_[1].status
  /\ tuning_results_[1].time # kMaxFloat

-----------------------------------------------------------------------------
(* Claim about undeclared names in set-up calls (SpecSetup) *)

\* the call threw "Invalid parameter" and registered nothing
FailsRegisteringNothing ==
  /\ outcome'.error = "Invalid parameter"
  /\ kernels' = kernels

C15_Step(id) ==
  /\ \A constraint \in SetupConstraints :
       (/\ AddConstraint(id, constraint)
        /\ ValidId(id)
        /\ \E name \in Range(ConstraintParameters(constraint)) : name \notin DeclaredNames(id))
       => FailsRegisteringNothing
  /\ \A parameters \in SetupNameLists :
       (/\ SetLocalMemoryUsage(id, parameters)
        /\ ValidId(id)
        /\ \E name \in Range(parameters) : name \notin DeclaredNames(id))
       => FailsRegisteringNothing

\* C15: AddConstraint and SetLocalMemoryUsage throw, and register nothing on
\* the kernel, when one of the names they are given is not a parameter the
\* kernel has declared at the time of the call
C15_UndeclaredNameFails == [][\A id \in KernelIds : C15_Step(id)]_vars

\* a call failed on a kernel that declares one of two names
C15_Witness ==
  /\ outcome.error = "Invalid parameter"
  /\ \E id \in 0..(Len(kernels) - 1) :
       /\ DeclaredNames(id) = {"TS1"}
       /\ kernels[id + 1].constraints_ = <<>>
       /\ kernels[id + 1].local_memory_ = <<>>

-----------------------------------------------------------------------------
(* Claim about ModelPrediction (SpecPredict) *)

\* the results stored before the running or last ModelPrediction call, and
\* the configurations they hold
ResultsBefore == SubSeq(tuning_results_, 1, Len(tuning_results_) - Len(run_log))
ExploredBefore == {ResultsBefore[k].configuration : k \in 1..Len(ResultsBefore)}

\* the calls of run_log are the first ones of model_results, in its order
RunsBestPredictedInOrder ==
  /\ Len(run_log) <= prediction.test_top_x_configurations
  /\ \A k \in 1..Len(run_log) :
       /\ k <= Len(prediction.model_results)
       /\ run_log[k].defines =
            kernels[kernel_ix + 1].configuration_list_[prediction.model_results[k][1] + 1]
       /\ tuning_results_[Len(ResultsBefore) + k].configuration = run_log[k].defines
  /\ \A i, j \in 1..Len(prediction.model_results) :
       i < j => prediction.model_results[i][2] <= prediction.model_results[j][2]

\* C16: ModelPrediction runs only legal configurations that no result stored
\* before the call holds, namely the at most K configurations of lowest
\* predicted time in ascending order, and each run appends one result
C16_OnlyUnexplored ==
  pc = "test" =>
     /\ RunsBestPredictedInOrder
     /\ \A k \in 1..Len(run_log) :
          /\ run_log[k].defines \in Range(kernels[kernel_ix + 1].configuration_list_)
          /\ run_log[k].defines \notin ExploredBefore

\* ModelPrediction ran a configuration that the search had already run
C16_Witness ==
  /\ pc = "test"
  /\ Len(run_log) = 2
  /\ run_log[1].defines \notin ExploredBefore
  /\ run_log[2].defines \in ExploredBefore
  /\ RunsBestPredictedInOrder

\* the part of C16 the code keeps: the configurations run are legal and are
\* the first K of the predictions, in ascending order of predicted time
C16_BestPredictedInOrder ==
  pc = "test" =>
     /\ RunsBestPredictedInOrder
     /\ \A k \in 1..Len(run_log) :
          run_log[k].defines \in Range(kernels[kernel_ix + 1].configuration_list_)

-----------------------------------------------------------------------------
(* Claim about the PSO searcher (SpecPSO) *)

\* of the pushes at the positions K of the log, the first with the lowest time
FirstFastest(K) ==
  CHOOSE k \in K : \A j \in K : \/ returned[k].time < returned[j].time
                                \/ returned[k].time = returned[j].time /\ k <= j

\* the best time and configuration are those of the first fastest push of K
BestIs(K, best_time, best_config) ==
  IF K = {} THEN best_time = kMaxDouble /\ best_config = <<>>
  ELSE /\ best_time = returned[FirstFastest(K)].time
       /\ best_config = returned[FirstFastest(K)].configuration

\* C17: the global best time of PSO is the lowest of all pushed times and the
\* global best configuration the one at the cursor when that time was first
\* pushed; each particle's local best is the same over the pushes of its turns
C17_PSOBestTracking ==
  /\ BestIs(1..Len(returned), search.global_best_time_, search.global_best_config_)
  /\ \A particle \in 0..(search.swarm_size_ - 1) :
       BestIs({k \in 1..Len(returned) : returned[k].particle = particle},
              search.local_best_times_[particle + 1],
              search.local_best_configs_[particle + 1])

\* two particles have had their turn; the lowest time was pushed twice, at
\* different configurations
C17_Witness ==
  /\ Len(returned) = 2
  /\ search.swarm_size_ = 2
  /\ returned[1].particle # returned[2].particle
  /\ returned[1].time = returned[2].time
  /\ returned[1].configuration # returned[2].configuration
  /\ search.local_best_configs_[2] # search.global_best_config_

-----------------------------------------------------------------------------
(* Claims about Annealing's neighbour relation (checked under SpecAnnealing) *)

\* the two configurations bind different values to exactly one parameter
DifferInOneParameter(a, b) ==
  \E name \in {a[k].name : k \in 1..Len(a)} :
    /\ ValueOf(a, name) # ValueOf(b, name)
    /\ \A other \in {a[k].name : k \in 1..Len(a)} \ {name} :
         ValueOf(a, other) = ValueOf(b, other)

NeighbourIds(reference_id) ==
  LET neighbours == Annealing_GetNeighboursOf(search, reference_id)
  IN {neighbours[k] : k \in 1..Len(neighbours)}

\* C18: GetNeighboursOf(X) returns exactly the ids of the configurations that
\* differ from configuration X in the value of exactly one parameter; X is
\* never among them, and Y is among the neighbours of X exactly when X is
\* among the neighbours of Y
C18_NeighbourRelation ==
  (search.kind = "Annealing" /\ returned # <<>>) =>
    LET X == returned[1].reference_id
        N == {returned[1].neighbours[k] : k \in 1..Len(returned[1].neighbours)}
        ids == 0..(Len(search.configurations_) - 1)
    IN /\ N = {Y \in ids : DifferInOneParameter(search.configurations_[X + 1],
                                                search.configurations_[Y + 1])}
       /\ X \notin N
       /\ \A Y \in ids : Y \in N <=> X \in NeighbourIds(Y)

\* a call that found two neighbours and left out two other configurations,
\* one that differs in two parameters and one that is equal to the reference
C18_Witness ==
  /\ search.kind = "Annealing"
  /\ returned # <<>>
  /\ Len(returned[1].neighbours) >= 2
  /\ \E Y, Z \in 0..(Len(search.configurations_) - 1) :
       LET X == returned[1].reference_id
           N == {returned[1].neighbours[k] : k \in 1..Len(returned[1].neighbours)}
       IN /\ Y \notin N /\ Z \notin N /\ Y # X /\ Z # X
          /\ search.configurations_[Y + 1] = search.configurations_[X + 1]
          /\ search.configurations_[Z + 1] # search.configurations_[X + 1]

-----------------------------------------------------------------------------
(* Claims about ComputeRanges (checked under SpecRanges) *)

RECURSIVE ExpectedSize(_, _, _, _, _, _)

\* the size of dimension d (1-based) after the first m modifiers, in the
\* order they were declared, acted on the base size: a modifier of the given
\* kind ("Global" or "Local") multiplies or integer-divides by the value the
\* configuration binds to the modifier's name for the dimension
ExpectedSize(base, kind, modifiers, configuration, d, m) ==
  IF m = 0 THEN base[d]
  ELSE LET before == ExpectedSize(base, kind, modifiers, configuration, d, m - 1)
           name == modifiers[m].value[d]
       IN IF name = "" THEN before
          ELSE IF modifiers[m].type = "k" \o kind \o "Mul"
            THEN before * ValueOf(configuration, name)
          ELSE IF modifiers[m].type = "k" \o kind \o "Div"
            THEN before \div ValueOf(configuration, name)
          ELSE before

\* the step is a ComputeRanges call: the modifiers are the same before and after
IsComputeRangesStep ==
  kernels'[1].thread_size_modifiers_ = kernels[1].thread_size_modifiers_

C19_Step ==
  (IsComputeRangesStep /\ outcome'.error = "") =>
    LET kernel == kernels[1]
        after == kernels'[1]
        modifiers == kernel.thread_size_modifiers_
    IN /\ after.global_base_ = kernel.global_base_
       /\ after.local_base_ = kernel.local_base_
       /\ Len(after.global_) = Len(kernel.global_base_)
       /\ Len(after.local_) = Len(kernel.local_base_)
       /\ \A d \in 1..Len(kernel.global_base_) :
            /\ after.global_[d] = ExpectedSize(kernel.global_base_, "Global", modifiers,
                                               returned'[1], d, Len(modifiers))
            /\ after.local_[d] = ExpectedSize(kernel.local_base_, "Local", modifiers,
                                              returned'[1], d, Len(modifiers))

\* C19: a ComputeRanges call that returns sets every dimension of the
\* effective global and local size to the base size of the dimension with all
\* modifiers applied in declaration order (multiply, or integer-divide, by the
\* value the configuration binds to the modifier's name); the base sizes stay
\* as they were, so the sizes stored by earlier calls have no influence
C19_RangesFromBase == [][C19_Step]_vars

\* a call returned with two modifiers on the global size of the first
\* dimension whose order matters for the result (128 * 8 \div 3 = 341)
C19_Witness ==
  /\ returned # <<>>
  /\ outcome.error = ""
  /\ LET kernel == kernels[1]
         modifiers == kernel.thread_size_modifiers_
     IN /\ Len(modifiers) = 2
        /\ kernel.global_[1] = 341
        /\ kernel.global_[1]
             # ExpectedSize(kernel.global_base_, "Global", <<modifiers[2], modifiers[1]>>,
                            returned[1], 1, 2)
        /\ kernel.local_ = kernel.local_base_

\* the modifier strings of dimension d (1-based) that are not empty and are
\* no parameter name of the configuration
UnmatchedStrings(kernel, configuration, d) ==
  {kernel.thread_size_modifiers_[m].value[d] : m \in 1..Len(kernel.thread_size_modifiers_)}
    \ ({""} \cup {configuration[k].name : k \in 1..Len(configuration)})

C20_Step ==
  IsComputeRangesStep =>
    LET kernel == kernels[1]
        after == kernels'[1]
        dims == 1..Len(kernel.global_base_)
        NotEmpty(d) == SelectSeq(kernel.thread_size_modifiers_,
                                 LAMBDA modifier : modifier.value[d] # "")
    IN /\ (\E d \in dims : UnmatchedStrings(kernel, returned'[1], d) # {})
            => outcome'.error # ""
       /\ (/\ Len(kernel.global_base_) = Len(kernel.local_base_)
           /\ \A d \in dims : UnmatchedStrings(kernel, returned'[1], d) = {})
            => outcome'.error = ""
       /\ outcome'.error # "" =>
            after.global_ = kernel.global_ /\ after.local_ = kernel.local_
       /\ outcome'.error = "" =>
            \A d \in dims :
              /\ after.global_[d] = ExpectedSize(kernel.global_base_, "Global", NotEmpty(d),
                                                 returned'[1], d, Len(NotEmpty(d)))
              /\ after.local_[d] = ExpectedSize(kernel.local_base_, "Local", NotEmpty(d),
                                                returned'[1], d, Len(NotEmpty(d)))

\* C20: in a ComputeRanges call a modifier whose string for a dimension is
\* empty leaves the dimension as it is without that modifier; a string that
\* is not empty and is no parameter name of the configuration makes the call
\* throw, and then the stored global and local sizes are what they were
\* before the call
C20_EmptyAndUnresolved == [][C20_Step]_vars

\* a call threw on an unresolved modifier after an earlier call had stored
\* sizes that are not the base sizes, with an empty string among the modifiers
C20_Witness ==
  /\ returned # <<>>
  /\ outcome.error = "Invalid modifier: WPT"
  /\ kernels[1].global_ # kernels[1].global_base_
  /\ \E m \in 1..Len(kernels[1].thread_size_modifiers_) :
       kernels[1].thread_size_modifiers_[m].value[2] = ""

\* a call returned with a modifier whose string is empty for one dimension
\* and a parameter name for the other
C20_WitnessEmpty ==
  /\ returned # <<>>
  /\ outcome.error = ""
  /\ Len(kernels[1].global_base_) = 2
  /\ kernels[1].thread_size_modifiers_ # <<>>
  /\ kernels[1].thread_size_modifiers_[1].value[2] = ""
  /\ kernels[1].global_[1] # kernels[1].global_base_[1]
  /\ kernels[1].global_[2] = kernels[1].global_base_[2]

-----------------------------------------------------------------------------
(* Claims about a run of the annealing searcher (SpecAnnealingRun)          *)

\* the configuration with 0-based id k has been run
Visited(k) == search.execution_times_[k + 1] # kMaxDouble

C21_Counter ==
  search.kind = "Annealing" =>
    /\ search.num_already_visisted_states_ <= kMaxAlreadyVisitedStates
    /\ pc \in {"search", "run"} => search.num_already_visisted_states_ = 0

C21_Step ==
  (search.kind = "Annealing" /\ pc = "next") =>
    /\ pc' = "next" =>
         search'.num_already_visisted_states_ = search.num_already_visisted_states_ + 1
    /\ (/\ pc' = "search"
        /\ search'.index_ < Len(search.configurations_)
        /\ search.execution_times_[search'.index_ + 1] # kMaxDouble) =>
         search.num_already_visisted_states_ = kMaxAlreadyVisitedStates

\* C21: CalculateNextIndex always ends: every call of itself on an already
\* visited neighbour adds one to the retry counter, the counter never passes
\* kMaxAlreadyVisitedStates, an already visited neighbour becomes the next
\* index only when the counter has reached that budget, and the counter is 0
\* whenever the program is back in the loop of Tune
C21_RetryBudget ==
  /\ []C21_Counter
  /\ [][C21_Step]_vars
  /\ (pc = "next" ~> pc # "next")

\* CalculateNextIndex returned with an already visited configuration as the
\* next index
C21_Witness ==
  /\ search.kind = "Annealing"
  /\ pc = "search"
  /\ p > 0
  /\ search.index_ < Len(search.configurations_)
  /\ Visited(search.index_)
  /\ search.index_ # search.current_state_

\* C22: after every CalculateNextIndex on a non-empty list the program is
\* running and index_ is an index of the list and a neighbour of
\* current_state_
C22_CursorIsNeighbour ==
  (search.kind = "Annealing" /\ search.configurations_ # <<>>) =>
    /\ pc # "crashed"
    /\ (pc = "search" /\ p > 0) =>
         /\ search.index_ < Len(search.configurations_)
         /\ search.current_state_ < Len(search.configurations_)
         /\ DifferInOneParameter(search.configurations_[search.current_state_ + 1],
                                 search.configurations_[search.index_ + 1])

\* CalculateNextIndex went on after the division by zero on a list of one
\* configuration, and the next index is the current state itself
C22_Witness ==
  /\ search.kind = "Annealing"
  /\ Len(search.configurations_) = 1
  /\ pc = "search"
  /\ p = 1
  /\ search.index_ = search.current_state_

\* C23: the exploration log is the sequence of the indices that were run,
\* in the order they were run, and the time slot of every index that was run
\* holds the time of its last run
C23_LogIsWhatRan ==
  search.kind = "Annealing" =>
    /\ search.explored_indices_ = [k \in 1..Len(returned) |-> returned[k].index]
    /\ \A k \in 1..Len(returned) :
         (\A later \in (k + 1)..Len(returned) : returned[later].index # returned[k].index)
           => search.execution_times_[returned[k].index + 1] = returned[k].time

\* the second configuration that was run is not the current state
C23_Witness ==
  /\ search.kind = "Annealing"
  /\ Len(returned) = 2
  /\ returned[2].index # search.explored_indices_[2]
  /\ search.execution_times_[returned[2].index + 1] = returned[2].time

-----------------------------------------------------------------------------
(* Claims about the positions and the moves of PSO (checked under SpecPSO)  *)

\* every particle position, and the cursor, is an index of the list
PositionsInside ==
  /\ search.index_ < Len(search.configurations_)
  /\ \A k \in 1..search.swarm_size_ :
       search.particle_positions_[k] < Len(search.configurations_)

\* C24: every particle position of PSO is an index of the configuration list
\* at all times, and so is the cursor at every read of configurations_[index_]
C24_PositionsInside ==
  search.kind = "PSO" =>
    /\ PositionsInside
    /\ \A k \in 1..Len(returned) : returned[k].index < Len(search.configurations_)

\* a configuration was read, and its time pushed, with the cursor at the
\* size of the list
C24_Witness ==
  /\ search.kind = "PSO"
  /\ \E k \in 1..Len(returned) : returned[k].index = Len(search.configurations_)

\* C25: a pass of the loop of CalculateNextIndex reads only inside vectors:
\* a random move of dimension i draws an index inside the value list of
\* parameter i, and a global or local move reads position i of a best
\* configuration that has been set
C25_MovesReadInside ==
  (search.kind = "PSO" /\ run_log # <<>>) => run_log[1].reads_outside = {}

\* with every position inside the list, a random move read the element one
\* past the end of the value list of the first parameter
C25_Witness ==
  /\ search.kind = "PSO"
  /\ PositionsInside
  /\ \A k \in 1..Len(returned) : returned[k].index < Len(search.configurations_)
  /\ run_log # <<>>
  /\ run_log[1].reads_outside = {[vector |-> "values", i |-> 0]}

\* a pass of the loop that ends it
PSO_LoopExit ==
  \E moves \in [1..Len(search.parameters_) -> PSO_Moves(search)],
     draws \in PSO_Draws(search), garbage \in {0, 8} :
    PSO_Next(moves, draws, garbage) /\ pc' = "search"

\* C28: in every state inside CalculateNextIndex some outcome of the moves
\* gives a configuration of the list, so a pass that ends the loop is possible
C28_LoopCanExit ==
  (search.kind = "PSO" /\ pc = "next") => ENABLED PSO_LoopExit

\* the cursor is at the size of the list, every dimension takes the global
\* move, and the global best is what was read at that cursor: no pass of the
\* loop finds an index of the list
C28_Witness ==
  /\ search.kind = "PSO"
  /\ pc = "next"
  /\ search.index_ = Len(search.configurations_)
  /\ PSO_Moves(search) = {"global"}
  /\ ~ENABLED PSO_LoopExit

-----------------------------------------------------------------------------
(* Claims about the feature normalization (checked under SpecNormalize)     *)

\* the features whose training values are all equal
ConstantFeatures ==
  {nid \in 1..Len(prediction.x_train[1]) :
     \A mid \in 1..Len(prediction.x_train) :
       prediction.x_train[mid][nid] = prediction.x_train[1][nid]}

\* C26: once the normalization data is computed, the range of every feature
\* whose training values are all equal is 1, and no normalized feature value
\* is the result of a division by zero.
C26_ZeroRangeGuarded ==
  pc \in {"train", "validate", "done"} =>
    /\ \A nid \in ConstantFeatures : prediction.ranges_[nid] = 1
    /\ \A mid \in 1..Len(prediction.x_temp) :
         \A nid \in 1..Len(prediction.x_temp[mid]) :
           prediction.x_temp[mid][nid].kind = "finite"

\* a training set with a constant feature has been normalized
C26_Witness ==
  /\ pc = "validate"
  /\ ConstantFeatures # {}
  /\ Len(prediction.x_train) > 1
  /\ \E nid \in ConstantFeatures :
       prediction.x_temp[1][nid].kind = "nan"

-----------------------------------------------------------------------------
(* Claims about a verification mismatch (checked under SpecTune)            *)

\* an iteration of the configuration loop whose run completed with an output
\* that differs from the reference: the result appended keeps the measured
\* time, which is not the time of a failed run, has status false, and the
\* loop goes on to its next iteration
C27_Step ==
  \A run \in RunOutcomes :
    (has_reference_ /\ run.kind = "ok" /\ run.copy = "differ" /\ Tune_Iteration(run)) =>
      /\ Len(tuning_results_') = Len(tuning_results_) + 1
      /\ tuning_results_'[Len(tuning_results_')].time = run.time
      /\ tuning_results_'[Len(tuning_results_')].time # kMaxFloat
      /\ tuning_results_'[Len(tuning_results_')].status = FALSE
      /\ pc' = "loop"
      /\ p' = p + 1

\* C27: when a configuration runs to completion but its output does not match
\* the reference, the result stored for it keeps the measured time, not the
\* time of a failed run, with status false, and the configuration loop
\* continues with its next iteration.
C27_MismatchKeepsTime == [][C27_Step]_vars

\* a mismatching run was stored with its measured time and the loop ran on:
\* a second result follows it
C27_Witness ==
  /\ has_reference_
  /\ Len(tuning_results_) = 2
  /\ Len(run_log) >= 2
  /\ ~run_log[Len(run_log) - 1].verified
  /\ tuning_results_[1].time \in RunTimes
  /\ ~tuning_results_[1].status

-----------------------------------------------------------------------------
(* Claims about repeated enumeration (checked under SpecEnum)               *)

\* C29: computing the configuration list is idempotent: after any number of
\* SetConfigurationList calls on a kernel its list is the list a single call
\* gives, so no configuration appears more often than after the first call.
C29_Idempotent ==
  \A k \in 1..Len(kernels) :
    enum_calls[k] >= 1 =>
      kernels[k].configuration_list_ = PopulateConfigurations(kernels[k], 0, <<>>, <<>>)

\* a second call on a kernel with at least one valid configuration has left
\* the list of the first call, twice over
C29_Witness ==
  /\ enum_calls[1] = 2
  /\ PopulateConfigurations(kernels[1], 0, <<>>, <<>>) # <<>>
  /\ kernels[1].configuration_list_ =
       PopulateConfigurations(kernels[1], 0, <<>>, <<>>)
         \o PopulateConfigurations(kernels[1], 0, <<>>, <<>>)

-----------------------------------------------------------------------------
(* Claims about the choice of the search method (checked under SpecUse)     *)

\* the arguments of the last Use call with arguments: every such call appends
\* its n arguments to search_args_, so they are the last n elements
LastArguments(n) == SubSeq(search_args_, Len(search_args_) - n + 1, Len(search_args_))

\* C30: after any sequence of UseFullSearch, UseRandomSearch, UseAnnealing and
\* UsePSO calls, the searcher Tune creates is of the method the last call
\* selected and holds exactly the arguments passed in that last call:
\* fraction, maximum temperature, swarm size, the three influences.
C30_LastCallWins ==
  pc \in {"loop", "crashed"} =>
    /\ search # NoSearch
    /\ search.kind = search_method_
    /\ search.kind = "RandomSearch" => search.fraction_ = LastArguments(1)[1]
    /\ search.kind = "Annealing" =>
         /\ search.fraction_ = LastArguments(2)[1]
         /\ search.max_temperature_ = LastArguments(2)[2]
    /\ search.kind = "PSO" =>
         /\ search.fraction_ = LastArguments(5)[1]
         /\ Fraction(search.swarm_size_, 1) = LastArguments(5)[2]
         /\ search.influence_global_ = LastArguments(5)[3]
         /\ search.influence_local_ = LastArguments(5)[4]
         /\ search.influence_random_ = LastArguments(5)[5]

\* UseRandomSearch(1/2), then UseAnnealing(1, 4), then Tune: the annealing
\* searcher holds the fraction of the first call, and the fraction of the
\* second call as its maximum temperature
C30_Witness ==
  /\ pc = "loop"
  /\ search_args_ = <<Fraction(1, 2), Fraction(1, 1), Fraction(4, 1)>>
  /\ search.kind = "Annealing"
  /\ search.fraction_ = Fraction(1, 2)
  /\ search.max_temperature_ = Fraction(1, 1)

=============================================================================
